---- MODULE Spec2Model ----
(***************************************************************************)
(* Model of the expression trees of the `expr` crate: the immutable Expr,  *)
(* the four-state Builder (BHole, BTokenHole, BExpr, BPart) with its       *)
(* editing operations and its non-destructive finish, the structural       *)
(* equality between Exprs and Builders, and a downward cursor (Lens) into  *)
(* the Builder under construction.                                         *)
(***************************************************************************)
EXTENDS Integers, Sequences, FiniteSets, TLC

\* Largest number of nodes (Builder nodes and Expr nodes) of a tree under construction.
MaxNodes == 3

\* Token texts; Token equality is equality of the text (tokens.rs, PartialEq for Token).
Tokens == {"a", "b"}

\* Option<T>
None == [some |-> FALSE]
Some(x) == [some |-> TRUE, value |-> x]

------------------------------------------------------------------------------
\* ExprInner / Expr

\* ExprInner::from_parts
from_parts(head_token, child_exprs, fmt_expr) ==
  [head_token |-> head_token, child_exprs |-> child_exprs, fmt_expr |-> fmt_expr]

\* Expr::from_parts: an Expr is a transparent wrapper of its ExprInner.
Expr_from_parts(head_token, child_exprs, fmt_expr) ==
  from_parts(head_token, child_exprs, fmt_expr)

\* Expr::from_token_in: no children, the default formatter.
Expr_from_token(head_token) == Expr_from_parts(head_token, <<>>, "fmt_expr")

------------------------------------------------------------------------------
\* Builder: the tagged union

BHole == [tag |-> "BHole"]
BTokenHole(child_exprs, fmt_expr) ==
  [tag |-> "BTokenHole", child_exprs |-> child_exprs, fmt_expr |-> fmt_expr]
BExpr(expr) == [tag |-> "BExpr", expr |-> expr]
BPart(inner) == [tag |-> "BPart", inner |-> inner]

\* Builder::from_token_in
from_token(token) == BExpr(Expr_from_token(token))

\* Builder::new_in
new_in == BTokenHole(<<>>, "fmt_expr")

\* Mutant: only a BHole is a hole.
is_hole_bhole_only(self) == self.tag = "BHole"

\* Builder::is_hole
is_hole(self) == self.tag \in {"BHole", "BTokenHole"}

\* Mutant: every Builder has children, a BHole included.
has_children_always(self) == self.tag \in {"BHole", "BTokenHole", "BExpr", "BPart"}

\* Builder::has_children
has_children(self) == self.tag \in {"BTokenHole", "BExpr", "BPart"}

\* map_in_place::vec::alloc::map(child_exprs, BExpr)
map_BExpr(child_exprs) == [i \in 1..Len(child_exprs) |-> BExpr(child_exprs[i])]

\* Builder::can_finish: the while loop over the children of a BPart.
RECURSIVE can_finish(_), can_finish_loop(_, _)
can_finish_loop(child_exprs, index) ==
  IF index <= Len(child_exprs)
  THEN IF ~can_finish(child_exprs[index]) THEN FALSE
       ELSE can_finish_loop(child_exprs, index + 1)
  ELSE TRUE

\* Mutant: the loop looks at the first child only.
can_finish_first_only(self) ==
  CASE self.tag \in {"BHole", "BTokenHole"} -> FALSE
    [] self.tag = "BExpr" -> TRUE
    [] self.tag = "BPart" ->
         \/ Len(self.inner.child_exprs) = 0
         \/ can_finish(self.inner.child_exprs[1])

\* Mutant: a BTokenHole is tested like a BPart.
can_finish_token_hole(self) ==
  CASE self.tag = "BHole" -> FALSE
    [] self.tag = "BExpr" -> TRUE
    [] self.tag = "BTokenHole" -> can_finish_loop(self.child_exprs, 1)
    [] self.tag = "BPart" -> can_finish_loop(self.inner.child_exprs, 1)

can_finish(self) ==
  CASE self.tag \in {"BHole", "BTokenHole"} -> FALSE
    [] self.tag = "BExpr" -> TRUE
    [] self.tag = "BPart" -> can_finish_loop(self.inner.child_exprs, 1)

\* Mutant: the children of a BExpr are lost with its head.
take_token_drops_children(self) ==
  CASE self.tag \in {"BHole", "BTokenHole"} -> [ret |-> None, self |-> self]
    [] self.tag = "BExpr" ->
         [ret |-> Some(self.expr.head_token),
          self |-> BTokenHole(<<>>, self.expr.fmt_expr)]
    [] self.tag = "BPart" ->
         [ret |-> Some(self.inner.head_token),
          self |-> BTokenHole(self.inner.child_exprs, self.inner.fmt_expr)]

\* Mutant: the BHole of mem::replace(self,BHole) is left in place.
take_token_leaves_placeholder(self) ==
  CASE self.tag \in {"BHole", "BTokenHole"} -> [ret |-> None, self |-> self]
    [] self.tag = "BExpr" -> [ret |-> Some(self.expr.head_token), self |-> BHole]
    [] self.tag = "BPart" -> [ret |-> Some(self.inner.head_token), self |-> BHole]

\* Builder::take_token: [ret, self]
take_token(self) ==
  CASE self.tag \in {"BHole", "BTokenHole"} -> [ret |-> None, self |-> self]
    [] self.tag = "BExpr" ->
         [ret |-> Some(self.expr.head_token),
          self |-> BTokenHole(map_BExpr(self.expr.child_exprs), self.expr.fmt_expr)]
    [] self.tag = "BPart" ->
         [ret |-> Some(self.inner.head_token),
          self |-> BTokenHole(self.inner.child_exprs, self.inner.fmt_expr)]

\* Mutant: the new head is returned instead of the previous one.
set_token_returns_new(self, token) ==
  CASE self.tag = "BHole" -> [ret |-> None, self |-> self]
    [] self.tag = "BExpr" ->
         [ret |-> Some(token), self |-> BExpr([self.expr EXCEPT !.head_token = token])]
    [] self.tag = "BPart" ->
         [ret |-> Some(token), self |-> BPart([self.inner EXCEPT !.head_token = token])]
    [] self.tag = "BTokenHole" ->
         [ret |-> None,
          self |-> BPart(from_parts(token, self.child_exprs, self.fmt_expr))]

\* Mutant: a BHole is filled by the token.
set_token_fills_hole(self, token) ==
  CASE self.tag = "BHole" -> [ret |-> None, self |-> BExpr(Expr_from_token(token))]
    [] self.tag = "BExpr" ->
         [ret |-> Some(self.expr.head_token),
          self |-> BExpr([self.expr EXCEPT !.head_token = token])]
    [] self.tag = "BPart" ->
         [ret |-> Some(self.inner.head_token),
          self |-> BPart([self.inner EXCEPT !.head_token = token])]
    [] self.tag = "BTokenHole" ->
         [ret |-> None,
          self |-> BPart(from_parts(token, self.child_exprs, self.fmt_expr))]

\* Builder::set_token: [ret, self]
set_token(self, token) ==
  CASE self.tag = "BHole" -> [ret |-> None, self |-> self]
    [] self.tag = "BExpr" ->
         [ret |-> Some(self.expr.head_token),
          self |-> BExpr([self.expr EXCEPT !.head_token = token])]
    [] self.tag = "BPart" ->
         [ret |-> Some(self.inner.head_token),
          self |-> BPart([self.inner EXCEPT !.head_token = token])]
    [] self.tag = "BTokenHole" ->
         [ret |-> None,
          self |-> BPart(from_parts(token, self.child_exprs, self.fmt_expr))]

\* Mutant: the children of a deconstructed BExpr are deconstructed as well.
RECURSIVE child_exprs_mut_deep(_)
child_exprs_mut_deep(self) ==
  CASE self.tag = "BExpr" ->
         BPart(from_parts(self.expr.head_token,
                          [i \in 1..Len(self.expr.child_exprs) |->
                             child_exprs_mut_deep(BExpr(self.expr.child_exprs[i]))],
                          self.expr.fmt_expr))
    [] OTHER -> self

\* Builder::child_exprs: the Builder after the call (a BExpr is deconstructed
\* into a BPart); only called when has_children.
child_exprs_mut(self) ==
  CASE self.tag = "BExpr" ->
         BPart(from_parts(self.expr.head_token, map_BExpr(self.expr.child_exprs),
                          self.expr.fmt_expr))
    [] OTHER -> self

\* The child list that Builder::child_exprs returns a reference to.
children_of(self) ==
  CASE self.tag = "BTokenHole" -> self.child_exprs
    [] self.tag = "BPart" -> self.inner.child_exprs
    [] self.tag = "BExpr" -> map_BExpr(self.expr.child_exprs)
    [] OTHER -> <<>>

\* Writes through the reference returned by Builder::child_exprs.
with_children(self, child_exprs) ==
  CASE self.tag = "BTokenHole" -> [self EXCEPT !.child_exprs = child_exprs]
    [] self.tag = "BPart" -> [self EXCEPT !.inner.child_exprs = child_exprs]
    [] OTHER -> self

\* Mutant: the child is inserted in front of the others.
push_child_front(self, child) ==
  LET promoted == child_exprs_mut(self)
  IN with_children(promoted, <<child>> \o children_of(promoted))

\* Builder::push_child: self.child_exprs().push(child)
push_child(self, child) ==
  LET promoted == child_exprs_mut(self)
  IN with_children(promoted, Append(children_of(promoted), child))

\* Mutant: a BExpr is deconstructed by the push, as by push_child.
push_expr_promotes(self, child) == push_child(self, BExpr(child))

\* Builder::push_expr: a BExpr keeps its state and pushes onto the Expr.
push_expr(self, child) ==
  CASE self.tag = "BExpr" ->
         BExpr([self.expr EXCEPT !.child_exprs = Append(@, child)])
    [] OTHER -> with_children(self, Append(children_of(self), BExpr(child)))

\* Builder::push_token_in
push_token_in(self, token) == push_expr(self, Expr_from_token(token))

\* Builder::finish (non-destructive on failure): [ret, self]
RECURSIVE finish(_), finish_children(_, _, _)
\* Mutant: the loop goes on after a child that returned None.
finish_children_no_break(child_builders, index, child_exprs) ==
  IF index > Len(child_builders)
  THEN [child_builders |-> child_builders, child_exprs |-> child_exprs]
  ELSE LET child == finish(child_builders[index])
           builders == [child_builders EXCEPT ![index] = child.self]
       IN IF child.ret.some
          THEN finish_children(builders, index + 1, Append(child_exprs, child.ret.value))
          ELSE finish_children(builders, index + 1, child_exprs)

\* for child in child_builders.iter_mut().map(Self::finish): stops at the first None
finish_children(child_builders, index, child_exprs) ==
  IF index > Len(child_builders)
  THEN [child_builders |-> child_builders, child_exprs |-> child_exprs]
  ELSE LET child == finish(child_builders[index])
           builders == [child_builders EXCEPT ![index] = child.self]
       IN IF child.ret.some
          THEN finish_children(builders, index + 1, Append(child_exprs, child.ret.value))
          ELSE [child_builders |-> builders, child_exprs |-> child_exprs]

\* Mutant: on failure the children already built are not put back.
finish_no_rebuild(self) ==
  CASE self.tag \in {"BHole", "BTokenHole"} -> [ret |-> None, self |-> self]
    [] self.tag = "BExpr" -> [ret |-> Some(self.expr), self |-> BHole]
    [] self.tag = "BPart" ->
         LET built == finish_children(self.inner.child_exprs, 1, <<>>)
         IN IF Len(built.child_exprs) = Len(built.child_builders)
            THEN [ret |-> Some(Expr_from_parts(self.inner.head_token, built.child_exprs,
                                               self.inner.fmt_expr)),
                  self |-> BHole]
            ELSE [ret |-> None,
                  self |-> BPart(from_parts(self.inner.head_token, built.child_builders,
                                            self.inner.fmt_expr))]

\* Mutant: the child Exprs are collected in reverse order.
finish_reversed(self) ==
  CASE self.tag \in {"BHole", "BTokenHole"} -> [ret |-> None, self |-> self]
    [] self.tag = "BExpr" -> [ret |-> Some(self.expr), self |-> BHole]
    [] self.tag = "BPart" ->
         LET built == finish_children(self.inner.child_exprs, 1, <<>>)
             n == Len(built.child_exprs)
         IN IF n = Len(built.child_builders)
            THEN [ret |-> Some(Expr_from_parts(
                             self.inner.head_token,
                             [i \in 1..n |-> built.child_exprs[n + 1 - i]],
                             self.inner.fmt_expr)),
                  self |-> BHole]
            ELSE [ret |-> None, self |-> self]

\* Mutant: a finished BPart is left in place instead of being replaced by BHole.
finish_keeps_part(self) ==
  CASE self.tag \in {"BHole", "BTokenHole"} -> [ret |-> None, self |-> self]
    [] self.tag = "BExpr" -> [ret |-> Some(self.expr), self |-> BHole]
    [] self.tag = "BPart" ->
         LET built == finish_children(self.inner.child_exprs, 1, <<>>)
         IN IF Len(built.child_exprs) = Len(built.child_builders)
            THEN [ret |-> Some(Expr_from_parts(self.inner.head_token, built.child_exprs,
                                               self.inner.fmt_expr)),
                  self |-> BPart(from_parts(self.inner.head_token, built.child_builders,
                                            self.inner.fmt_expr))]
            ELSE [ret |-> None, self |-> self]

finish(self) ==
  CASE self.tag \in {"BHole", "BTokenHole"} -> [ret |-> None, self |-> self]
    [] self.tag = "BExpr" -> [ret |-> Some(self.expr), self |-> BHole]
    [] self.tag = "BPart" ->
         LET built == finish_children(self.inner.child_exprs, 1, <<>>)
             child_builders == built.child_builders
             child_exprs == built.child_exprs
         IN IF Len(child_exprs) = Len(child_builders)
            THEN [ret |-> Some(Expr_from_parts(self.inner.head_token, child_exprs,
                                               self.inner.fmt_expr)),
                  self |-> BHole]
            ELSE [ret |-> None,
                  self |-> BPart(from_parts(
                     self.inner.head_token,
                     [i \in 1..Len(child_builders) |->
                        IF i <= Len(child_exprs) THEN BExpr(child_exprs[i])
                        ELSE child_builders[i]],
                     self.inner.fmt_expr))]

------------------------------------------------------------------------------
\* Structural equality

\* The child lists are compared by PartialEq for Vec: equal lengths and
\* pairwise equal elements, by the PartialEq of the two element types.

RECURSIVE expr_eq(_, _), eq_builder(_, _), eq_expr(_, _), builder_eq(_, _)

\* Mutant: the children are zipped, the lengths are not compared.
expr_eq_zip(lhs, rhs) ==
  /\ lhs.head_token = rhs.head_token
  /\ \A i \in 1..Len(lhs.child_exprs) :
       i <= Len(rhs.child_exprs) => expr_eq(lhs.child_exprs[i], rhs.child_exprs[i])

\* Mutant: child lists are equal only when both are empty.
expr_eq_leaf_only(lhs, rhs) ==
  /\ lhs.head_token = rhs.head_token
  /\ lhs.child_exprs = <<>>
  /\ rhs.child_exprs = <<>>

\* PartialEq<Expr> for Expr, through PartialEq for ExprInner
expr_eq(lhs, rhs) ==
  /\ lhs.head_token = rhs.head_token
  /\ Len(lhs.child_exprs) = Len(rhs.child_exprs)
  /\ \A i \in 1..Len(lhs.child_exprs) : expr_eq(lhs.child_exprs[i], rhs.child_exprs[i])

\* PartialEq<ExprInner<_, Vec<Builder>, _>> for Expr
expr_eq_part(expr, builder) ==
  /\ expr.head_token = builder.head_token
  /\ Len(expr.child_exprs) = Len(builder.child_exprs)
  /\ \A i \in 1..Len(expr.child_exprs) : eq_builder(expr.child_exprs[i], builder.child_exprs[i])

\* PartialEq<Expr> for ExprInner<_, Vec<Builder>, _>
part_eq_expr(builder, expr) ==
  /\ builder.head_token = expr.head_token
  /\ Len(builder.child_exprs) = Len(expr.child_exprs)
  /\ \A i \in 1..Len(builder.child_exprs) : eq_expr(builder.child_exprs[i], expr.child_exprs[i])

\* PartialEq for ExprInner, both sides with Builder children
part_eq(lhs, rhs) ==
  /\ lhs.head_token = rhs.head_token
  /\ Len(lhs.child_exprs) = Len(rhs.child_exprs)
  /\ \A i \in 1..Len(lhs.child_exprs) : builder_eq(lhs.child_exprs[i], rhs.child_exprs[i])

\* Expr::eq_builder (PartialEq<Builder> for Expr)
eq_builder(self, builder) ==
  CASE builder.tag \in {"BHole", "BTokenHole"} -> FALSE
    [] builder.tag = "BExpr" -> expr_eq(self, builder.expr)
    [] builder.tag = "BPart" -> expr_eq_part(self, builder.inner)

\* Builder::eq_expr (PartialEq<Expr> for Builder)
eq_expr(self, expr) ==
  CASE self.tag \in {"BHole", "BTokenHole"} -> FALSE
    [] self.tag = "BExpr" -> expr_eq(self.expr, expr)
    [] self.tag = "BPart" -> part_eq_expr(self.inner, expr)

\* Mutant: two BHoles are equal.
builder_eq_holes(self, rhs) ==
  CASE self.tag = "BHole" /\ rhs.tag = "BHole" -> TRUE
    [] self.tag = "BHole" \/ rhs.tag = "BHole" -> FALSE
    [] self.tag = "BTokenHole" \/ rhs.tag = "BTokenHole" -> FALSE
    [] self.tag = "BExpr" /\ rhs.tag = "BExpr" -> expr_eq(self.expr, rhs.expr)
    [] self.tag = "BExpr" /\ rhs.tag = "BPart" -> expr_eq_part(self.expr, rhs.inner)
    [] self.tag = "BPart" /\ rhs.tag = "BExpr" -> part_eq_expr(self.inner, rhs.expr)
    [] self.tag = "BPart" /\ rhs.tag = "BPart" -> part_eq(self.inner, rhs.inner)

\* Mutant: a BExpr and a BPart are never equal.
builder_eq_same_state(self, rhs) ==
  CASE self.tag = "BHole" \/ rhs.tag = "BHole" -> FALSE
    [] self.tag = "BTokenHole" \/ rhs.tag = "BTokenHole" -> FALSE
    [] self.tag = "BExpr" /\ rhs.tag = "BExpr" -> expr_eq(self.expr, rhs.expr)
    [] self.tag = "BPart" /\ rhs.tag = "BPart" -> part_eq(self.inner, rhs.inner)
    [] OTHER -> FALSE

\* PartialEq<Builder> for Builder
builder_eq(self, rhs) ==
  CASE self.tag = "BHole" \/ rhs.tag = "BHole" -> FALSE
    [] self.tag = "BTokenHole" \/ rhs.tag = "BTokenHole" -> FALSE
    [] self.tag = "BExpr" /\ rhs.tag = "BExpr" -> expr_eq(self.expr, rhs.expr)
    [] self.tag = "BExpr" /\ rhs.tag = "BPart" -> expr_eq_part(self.expr, rhs.inner)
    [] self.tag = "BPart" /\ rhs.tag = "BExpr" -> part_eq_expr(self.inner, rhs.expr)
    [] self.tag = "BPart" /\ rhs.tag = "BPart" -> part_eq(self.inner, rhs.inner)

------------------------------------------------------------------------------
\* Patterns

\* WildcardPattern
WildcardPattern == [kind |-> "WildcardPattern"]

\* EqPattern(value)
EqPattern(value) == [kind |-> "EqPattern", value |-> value]

\* Pattern::match_pattern of the head patterns: WildcardPattern matches
\* everything, EqPattern matches by PartialEq.
match_pattern(self, rhs) ==
  CASE self.kind = "WildcardPattern" -> TRUE
    [] self.kind = "EqPattern" -> self.value = rhs

\* ExprPattern::from_parts; child_patterns is a SparseVec: a function from
\* the declared child indices (0-based, as in the source) to the child patterns.
ExprPattern_from_parts(head_token, child_patterns, fmt_pattern) ==
  [head_token |-> head_token, child_patterns |-> child_patterns,
   fmt_pattern |-> fmt_pattern]

\* SparseVec::new_in
SparseVec_new == <<>>

\* ExprPattern::from_token_in
ExprPattern_from_token(head_token) ==
  ExprPattern_from_parts(head_token, SparseVec_new, "fmt_pattern")

\* Vec::get(index), index 0-based
Vec_get(vec, index) == IF index < Len(vec) THEN Some(vec[index + 1]) ELSE None

RECURSIVE match_expr(_, _)

\* Mutant: a declared index without a child to match against is skipped.
match_expr_skips_missing(self, expr) ==
  /\ match_pattern(self.head_token, expr.head_token)
  /\ \A index \in DOMAIN self.child_patterns :
       LET rhs_child == Vec_get(expr.child_exprs, index)
       IN IF rhs_child.some
          THEN match_expr(self.child_patterns[index], rhs_child.value)
          ELSE TRUE

\* ExprPattern::match_expr
match_expr(self, expr) ==
  /\ match_pattern(self.head_token, expr.head_token)
  /\ \A index \in DOMAIN self.child_patterns :
       LET rhs_child == Vec_get(expr.child_exprs, index)
       IN IF rhs_child.some
          THEN match_expr(self.child_patterns[index], rhs_child.value)
          ELSE FALSE

\* The value () that a BTokenHole offers in place of a head: the text of no Token.
Unit == "()"

RECURSIVE match_builder(_, _)

\* Mutant: a declared index without a child to match against is skipped.
match_builder_children_skips_missing(self, child_builders) ==
  \A index \in DOMAIN self.child_patterns :
    LET rhs_child == Vec_get(child_builders, index)
    IN IF rhs_child.some
       THEN match_builder(self.child_patterns[index], rhs_child.value)
       ELSE TRUE

\* self.child_patterns.iter().all(..) over the child Builders: a declared
\* index without a child to match against is false.
match_builder_children(self, child_builders) ==
  \A index \in DOMAIN self.child_patterns :
    LET rhs_child == Vec_get(child_builders, index)
    IN IF rhs_child.some
       THEN match_builder(self.child_patterns[index], rhs_child.value)
       ELSE FALSE

\* Mutant: a BHole among the children fails the match, declared or not.
match_builder_no_holes(self, builder) ==
  CASE builder.tag = "BHole" -> FALSE
    [] builder.tag = "BTokenHole" ->
         /\ match_pattern(self.head_token, Unit)
         /\ match_builder_children(self, builder.child_exprs)
         /\ \A i \in 1..Len(builder.child_exprs) : builder.child_exprs[i].tag # "BHole"
    [] builder.tag = "BExpr" -> match_expr(self, builder.expr)
    [] builder.tag = "BPart" ->
         /\ match_pattern(self.head_token, builder.inner.head_token)
         /\ match_builder_children(self, builder.inner.child_exprs)
         /\ \A i \in 1..Len(builder.inner.child_exprs) :
              builder.inner.child_exprs[i].tag # "BHole"

\* Mutant: a BHole is matched like a BTokenHole without children.
match_builder_hole_as_token_hole(self, builder) ==
  CASE builder.tag = "BHole" ->
         /\ match_pattern(self.head_token, Unit)
         /\ match_builder_children(self, <<>>)
    [] builder.tag = "BTokenHole" ->
         /\ match_pattern(self.head_token, Unit)
         /\ match_builder_children(self, builder.child_exprs)
    [] builder.tag = "BExpr" -> match_expr(self, builder.expr)
    [] builder.tag = "BPart" ->
         /\ match_pattern(self.head_token, builder.inner.head_token)
         /\ match_builder_children(self, builder.inner.child_exprs)

\* Mutant: the head pattern is not asked about a BTokenHole.
match_builder_no_probe(self, builder) ==
  CASE builder.tag = "BHole" -> FALSE
    [] builder.tag = "BTokenHole" -> match_builder_children(self, builder.child_exprs)
    [] builder.tag = "BExpr" -> match_expr(self, builder.expr)
    [] builder.tag = "BPart" ->
         /\ match_pattern(self.head_token, builder.inner.head_token)
         /\ match_builder_children(self, builder.inner.child_exprs)

\* Mutant: the children of a BPart are not matched.
match_builder_part_head_only(self, builder) ==
  CASE builder.tag = "BHole" -> FALSE
    [] builder.tag = "BTokenHole" ->
         /\ match_pattern(self.head_token, Unit)
         /\ match_builder_children(self, builder.child_exprs)
    [] builder.tag = "BExpr" -> match_expr(self, builder.expr)
    [] builder.tag = "BPart" -> match_pattern(self.head_token, builder.inner.head_token)

\* ExprPattern::match_builder
match_builder(self, builder) ==
  CASE builder.tag = "BHole" -> FALSE
    [] builder.tag = "BTokenHole" ->
         /\ match_pattern(self.head_token, Unit)
         /\ match_builder_children(self, builder.child_exprs)
    [] builder.tag = "BExpr" -> match_expr(self, builder.expr)
    [] builder.tag = "BPart" ->
         /\ match_pattern(self.head_token, builder.inner.head_token)
         /\ match_builder_children(self, builder.inner.child_exprs)

------------------------------------------------------------------------------
\* Display. What a formatter writes is the sequence of the pieces of its
\* write! calls, one per literal and one per argument; the text displayed is
\* their concatenation. A Token displays as its text.

\* The text a Formatter holds after the pieces of out were written to it.
RECURSIVE Formatted(_)
Formatted(out) == IF out = <<>> THEN "" ELSE Head(out) \o Formatted(Tail(out))

RECURSIVE Expr_fmt(_), fmt_expr(_), fmt_expr_loop(_, _)

\* A formatter of an Expr other than the default one: the head in angle
\* brackets, the children left out.
fmt_custom(expr) == <<"<", expr.head_token, ">">>

\* Display::fmt of an Expr: (self.fmt_expr)(self, fmt)
Expr_fmt(self) ==
  IF self.fmt_expr = "fmt_expr" THEN fmt_expr(self) ELSE fmt_custom(self)

\* Mutant: the children after the first are separated by "," alone.
fmt_expr_loop_no_space(child_exprs, out) ==
  IF child_exprs = <<>> THEN out
  ELSE fmt_expr_loop(Tail(child_exprs),
                     out \o <<",", Formatted(Expr_fmt(Head(child_exprs)))>>)

\* fmt_expr: for child in child_exprs { write!(fmt,", {}",child)? }
fmt_expr_loop(child_exprs, out) ==
  IF child_exprs = <<>> THEN out
  ELSE fmt_expr_loop(Tail(child_exprs),
                     out \o <<", ", Formatted(Expr_fmt(Head(child_exprs)))>>)

\* The default FmtExpr: the head, then the children in brackets if there are any.
fmt_expr(expr) ==
  LET head == <<expr.head_token>>
  IN IF expr.child_exprs = <<>> THEN head
     ELSE fmt_expr_loop(Tail(expr.child_exprs),
                        head \o <<" [", Formatted(Expr_fmt(Head(expr.child_exprs)))>>)
            \o <<"]">>

\* Display::fmt of the head patterns: WildcardPattern writes "Wildcard",
\* EqPattern what its value displays.
Pattern_fmt(self) ==
  CASE self.kind = "WildcardPattern" -> "Wildcard"
    [] self.kind = "EqPattern" -> self.value

\* SparseVec::iter: the declared indices in ascending order.
RECURSIVE SparseVec_iter(_)
SparseVec_iter(vec) ==
  IF DOMAIN vec = {} THEN <<>>
  ELSE LET first == CHOOSE i \in DOMAIN vec : \A j \in DOMAIN vec : i <= j
       IN <<first>> \o SparseVec_iter([k \in DOMAIN vec \ {first} |-> vec[k]])

RECURSIVE ExprPattern_fmt(_), fmt_pattern(_), fmt_pattern_loop(_, _, _, _)

\* Display::fmt of an ExprPattern: (self.fmt_pattern)(self, fmt); every
\* pattern here has the default formatter.
ExprPattern_fmt(self) == fmt_pattern(self)

\* Mutant: the test of the gap between two entries is inverted.
fmt_pattern_loop_inverted(pattern, child_patterns, last_index, out) ==
  IF child_patterns = <<>> THEN out
  ELSE LET index == Head(child_patterns)
           child == pattern.child_patterns[index]
           dots == IF 1 # index - last_index THEN "" ELSE "...,"
       IN fmt_pattern_loop(pattern, Tail(child_patterns), index,
                           out \o <<",", dots, " ", Formatted(ExprPattern_fmt(child))>>)

\* fmt_pattern: for (index, child) in child_patterns { ... }
fmt_pattern_loop(pattern, child_patterns, last_index, out) ==
  IF child_patterns = <<>> THEN out
  ELSE LET index == Head(child_patterns)
           child == pattern.child_patterns[index]
           dots == IF 1 = index - last_index THEN "" ELSE "...,"
       IN fmt_pattern_loop(pattern, Tail(child_patterns), index,
                           out \o <<",", dots, " ", Formatted(ExprPattern_fmt(child))>>)

\* Mutant: an elision marker is written after the last entry.
fmt_pattern_tail_marked(pattern) ==
  LET head == <<Pattern_fmt(pattern.head_token)>>
      child_patterns == SparseVec_iter(pattern.child_patterns)
  IN IF child_patterns = <<>> THEN head
     ELSE LET last_index == Head(child_patterns)
              child == pattern.child_patterns[last_index]
              dots == IF 0 = last_index THEN "" ELSE "... "
          IN fmt_pattern_loop(pattern, Tail(child_patterns), last_index,
                              head \o <<" [", dots, Formatted(ExprPattern_fmt(child))>>)
               \o <<", ", "...", "]">>

\* The default FmtPattern: the head, then the declared children in brackets
\* if there are any.
fmt_pattern(pattern) ==
  LET head == <<Pattern_fmt(pattern.head_token)>>
      child_patterns == SparseVec_iter(pattern.child_patterns)
  IN IF child_patterns = <<>> THEN head
     ELSE LET last_index == Head(child_patterns)
              child == pattern.child_patterns[last_index]
              dots == IF 0 = last_index THEN "" ELSE "... "
          IN fmt_pattern_loop(pattern, Tail(child_patterns), last_index,
                              head \o <<" [", dots, Formatted(ExprPattern_fmt(child))>>)
               \o <<"]">>

RECURSIVE Pattern_Display_fmt(_), patterns_fmt_pattern(_),
          patterns_fmt_pattern_loop(_, _, _, _)

\* Display::fmt of a Pattern of the patterns module: (self.fmt_pattern)(self, fmt);
\* every pattern here has the default formatter of that module.
Pattern_Display_fmt(self) == patterns_fmt_pattern(self)

\* patterns::fmt_pattern: for (index, child) in child_patterns { ... }, with
\* dots = if 1 != index - last_index { "" } else { "...," }
patterns_fmt_pattern_loop(pattern, child_patterns, last_index, out) ==
  IF child_patterns = <<>> THEN out
  ELSE LET index == Head(child_patterns)
           child == pattern.child_patterns[index]
           dots == IF 1 # index - last_index THEN "" ELSE "...,"
       IN patterns_fmt_pattern_loop(
            pattern, Tail(child_patterns), index,
            out \o <<",", dots, " ", Formatted(Pattern_Display_fmt(child))>>)

\* patterns::fmt_pattern, the default FmtPattern of the patterns module.
patterns_fmt_pattern(pattern) ==
  LET head == <<Pattern_fmt(pattern.head_token)>>
      child_patterns == SparseVec_iter(pattern.child_patterns)
  IN IF child_patterns = <<>> THEN head
     ELSE LET last_index == Head(child_patterns)
              child == pattern.child_patterns[last_index]
              dots == IF 0 = last_index THEN "" ELSE "... "
          IN patterns_fmt_pattern_loop(
               pattern, Tail(child_patterns), last_index,
               head \o <<" [", dots, Formatted(Pattern_Display_fmt(child))>>)
               \o <<"]">>

------------------------------------------------------------------------------
\* Lens: a downward cursor. The Builder pointed at is reached from the root
\* by the child indices visited so far (1-based here, 0-based in the source).

\* Mutant: the fill leaves the hole as it was.
fill_builder_keeps(self, builder) == self

\* Lens::fill_builder on a hole: *self.builder = builder
fill_builder(self, builder) == builder

\* Builder::from_expr
from_expr(expr) == BExpr(expr)

\* Lens::fill_expr
fill_expr(self, expr) == fill_builder(self, from_expr(expr))

\* Mutant: the hole is filled with a Builder that waits for its token.
fill_token_new_in(self, token) == fill_builder(self, new_in)

\* Lens::fill_token
fill_token(self, token) == fill_expr(self, Expr_from_token(token))

\* Mutant: a BExpr pushed onto keeps its state, the child pushed as an Expr
\* where it is one.
push_builder_keeps_expr(self, builder) ==
  CASE self.tag = "BExpr" /\ builder.tag = "BExpr" ->
         BExpr([self.expr EXCEPT !.child_exprs = Append(@, builder.expr)])
    [] self.tag = "BExpr" /\ builder.tag # "BExpr" ->
         BPart(from_parts(self.expr.head_token,
                          Append(map_BExpr(self.expr.child_exprs), builder),
                          self.expr.fmt_expr))
    [] OTHER -> with_children(self, Append(children_of(self), builder))

\* Lens::push_builder on a Builder that is not a hole: a BExpr is replaced by
\* the node of its Expr (Node::from_expr) before node.push_builder.
push_builder(self, builder) ==
  CASE self.tag = "BExpr" ->
         BPart(from_parts(self.expr.head_token,
                          Append(map_BExpr(self.expr.child_exprs), builder),
                          self.expr.fmt_expr))
    [] OTHER -> with_children(self, Append(children_of(self), builder))

\* Lens::push_expr on a Builder that is not a hole: a BExpr pushes onto its
\* Expr, the others go through push_builder.
Lens_push_expr(self, expr) ==
  CASE self.tag = "BExpr" -> BExpr([self.expr EXCEPT !.child_exprs = Append(@, expr)])
    [] OTHER -> push_builder(self, from_expr(expr))

\* Lens::push_token
Lens_push_token(self, token) == Lens_push_expr(self, Expr_from_token(token))

\* The outcome of a call that takes the Builder by value: a panic, or the
\* value returned.
Panicked == [panicked |-> TRUE, ret |-> None]
Returned(value) == [panicked |-> FALSE, ret |-> Some(value)]

RECURSIVE finish_owned(_, _), BuilderInner_finish(_, _), Owned_finish(_, _)

\* Builder::finish(self): debug_assert!(self.can_finish()), which is checked
\* in a build with debug_assertions only, then self.0.finish().
finish_owned(self, debug_assertions) ==
  IF debug_assertions /\ ~can_finish(self) THEN Panicked
  ELSE BuilderInner_finish(self, debug_assertions)

\* BuilderInner::finish: the Expr of a BExpr, the finished node of a BPart;
\* a fatal failure on a Builder without a head.
BuilderInner_finish(self, debug_assertions) ==
  CASE self.tag = "BExpr" -> Returned(self.expr)
    [] self.tag = "BPart" -> Owned_finish(self.inner, debug_assertions)
    [] OTHER -> Panicked

\* Mutant: the children that cannot be finished are left out.
Owned_finish_skips_holes(node, debug_assertions) ==
  LET children == [i \in 1..Len(node.child_exprs) |->
                     finish_owned(node.child_exprs[i], debug_assertions)]
      done == SelectSeq(children, LAMBDA c : ~c.panicked)
  IN Returned(Expr_from_parts(node.head_token,
                              [i \in 1..Len(done) |-> done[i].ret.value],
                              node.fmt_expr))

\* Owned::finish: alloc::map(children, Builder::finish), a panic of a child
\* being one of the whole call, then Expr::from_parts.
Owned_finish(node, debug_assertions) ==
  LET children == [i \in 1..Len(node.child_exprs) |->
                     finish_owned(node.child_exprs[i], debug_assertions)]
  IN IF \E i \in 1..Len(children) : children[i].panicked THEN Panicked
     ELSE Returned(Expr_from_parts(node.head_token,
                                   [i \in 1..Len(children) |-> children[i].ret.value],
                                   node.fmt_expr))

\* The Builder reached by indexing child_exprs along path.
RECURSIVE NodeAt(_, _)
NodeAt(root, path) ==
  IF path = <<>> THEN root
  ELSE NodeAt(children_of(root)[Head(path)], Tail(path))

RECURSIVE ReplaceAt(_, _, _)

\* Mutant: the write goes to the first child at each level of the path.
ReplaceAt_first_child(root, path, node) ==
  IF path = <<>> THEN node
  ELSE with_children(root,
         [children_of(root) EXCEPT ![1] = ReplaceAt(@, Tail(path), node)])

\* root after the Builder at path has been overwritten through the reference.
ReplaceAt(root, path, node) ==
  IF path = <<>> THEN node
  ELSE with_children(root,
         [children_of(root) EXCEPT ![Head(path)] = ReplaceAt(@, Tail(path), node)])

\* Number of nodes of an Expr and of a Builder.
RECURSIVE SumSeq(_)
SumSeq(s) == IF s = <<>> THEN 0 ELSE Head(s) + SumSeq(Tail(s))

RECURSIVE ExprSize(_)
ExprSize(expr) ==
  1 + SumSeq([i \in 1..Len(expr.child_exprs) |-> ExprSize(expr.child_exprs[i])])

RECURSIVE Size(_)
Size(self) ==
  CASE self.tag = "BHole" -> 1
    [] self.tag = "BExpr" -> ExprSize(self.expr)
    [] OTHER ->
         1 + SumSeq([i \in 1..Len(children_of(self)) |-> Size(children_of(self)[i])])

------------------------------------------------------------------------------
\* Inputs of the operations

InputExprs ==
  {Expr_from_token(t) : t \in Tokens}
    \cup {Expr_from_parts("a", <<Expr_from_token("b")>>, "fmt_custom")}

InputBuilders == {BHole, new_in} \cup {BExpr(e) : e \in InputExprs}

\* Largest number of nodes of the left and of the right operand of a comparison.
EqNodes == 3
EqOtherNodes == 2

\* The Exprs of exactly n nodes, and the sequences of Exprs of n nodes in all.
RECURSIVE ExprsOfSize(_), ExprSeqsOfSize(_)
ExprsOfSize(n) ==
  IF n < 1 THEN {}
  ELSE {Expr_from_parts(t, cs, "fmt_expr") : t \in Tokens, cs \in ExprSeqsOfSize(n - 1)}

ExprSeqsOfSize(n) ==
  IF n = 0 THEN {<<>>}
  ELSE UNION {{<<e>> \o cs : e \in ExprsOfSize(k), cs \in ExprSeqsOfSize(n - k)} :
              k \in 1..n}

\* The Builders of exactly n nodes, and the sequences of Builders of n nodes in all.
RECURSIVE BuildersOfSize(_), BuilderSeqsOfSize(_)
BuildersOfSize(n) ==
  IF n < 1 THEN {}
  ELSE (IF n = 1 THEN {BHole} ELSE {})
         \cup {BTokenHole(cs, "fmt_expr") : cs \in BuilderSeqsOfSize(n - 1)}
         \cup {BExpr(e) : e \in ExprsOfSize(n)}
         \cup {BPart(from_parts(t, cs, "fmt_expr")) :
                 t \in Tokens, cs \in BuilderSeqsOfSize(n - 1)}

BuilderSeqsOfSize(n) ==
  IF n = 0 THEN {<<>>}
  ELSE UNION {{<<b>> \o cs : b \in BuildersOfSize(k), cs \in BuilderSeqsOfSize(n - k)} :
              k \in 1..n}

BuildersUpTo(n) == UNION {BuildersOfSize(k) : k \in 1..n}

------------------------------------------------------------------------------
\* State

VARIABLES
  builder,  \* the root Builder; the left operand of a comparison
  lens,     \* path of the Lens: the child indices visited from the root
  shadow,   \* the Builder with the same edits but without the finish calls
            \* that returned None
  failed,   \* a finish call has returned None since construction
  other,    \* the right operand of a comparison
  pattern,  \* the ExprPattern of a match
  last      \* the last operation: its name, its argument, the root and the
            \* Builder pointed at before it (and its shadow), what it returned

vars == <<builder, lens, shadow, failed, other, pattern, last>>

Cur == NodeAt(builder, lens)
ShadowCur == NodeAt(shadow, lens)

Called(op, arg, ret, panicked) ==
  [op |-> op, arg |-> arg, root |-> builder, pre |-> Cur, spre |-> ShadowCur,
   ret |-> ret, panicked |-> panicked]

\* No call has panicked.
Running == ~last.panicked

Init ==
  /\ builder \in InputBuilders
  /\ lens = <<>>
  /\ shadow = builder
  /\ failed = FALSE
  /\ other = BHole
  /\ pattern = ExprPattern_from_token(WildcardPattern)
  /\ last = [op |-> "new", arg |-> None, root |-> builder, pre |-> builder,
             spre |-> builder, ret |-> None, panicked |-> FALSE]

\* Lens::from_builder on the root: the previous Lens is dropped.
FromBuilder ==
  /\ Running
  /\ lens # <<>>
  /\ last' = Called("from_builder", None, None, FALSE)
  /\ lens' = <<>>
  /\ UNCHANGED <<builder, shadow, failed, other, pattern>>

\* A call that panics: a fatal failure, nothing runs after it (see Running).
Panic(op, arg) ==
  /\ Running
  /\ last' = Called(op, arg, None, TRUE)
  /\ UNCHANGED <<builder, lens, shadow, failed, other, pattern>>

\* The call replaces the Builder pointed at (and its shadow) and returns ret.
Edit(op, arg, node, snode, ret) ==
  /\ Running
  /\ Size(ReplaceAt(builder, lens, node)) <= MaxNodes
  /\ builder' = ReplaceAt(builder, lens, node)
  /\ shadow' = ReplaceAt(shadow, lens, snode)
  /\ last' = Called(op, arg, ret, FALSE)
  /\ UNCHANGED <<lens, failed, other, pattern>>

TakeToken ==
  Edit("take_token", None, take_token(Cur).self, take_token(ShadowCur).self,
       take_token(Cur).ret)

SetToken ==
  \E token \in Tokens :
    Edit("set_token", token, set_token(Cur, token).self,
         set_token(ShadowCur, token).self, set_token(Cur, token).ret)

\* Builder::child_exprs on a Builder that has children: the list returned is
\* the list of the Builder after the call.
ChildExprs ==
  /\ has_children(Cur)
  /\ Edit("child_exprs", None, child_exprs_mut(Cur), child_exprs_mut(ShadowCur),
          Some(children_of(child_exprs_mut(Cur))))

\* Builder::child_exprs on a BHole.
ChildExprsPanic ==
  /\ ~has_children(Cur)
  /\ Panic("child_exprs", None)

PushChild ==
  /\ has_children(Cur)
  /\ \E child \in InputBuilders :
       Edit("push_child", child, push_child(Cur, child), push_child(ShadowCur, child),
            None)

\* Builder::push_child on a BHole: child_exprs panics.
PushChildPanic ==
  /\ ~has_children(Cur)
  /\ Panic("push_child", None)

PushExpr ==
  /\ has_children(Cur)
  /\ \E child \in InputExprs :
       Edit("push_expr", child, push_expr(Cur, child), push_expr(ShadowCur, child),
            None)

\* Builder::push_expr on a BHole.
PushExprPanic ==
  /\ ~has_children(Cur)
  /\ Panic("push_expr", None)

PushToken ==
  /\ has_children(Cur)
  /\ \E token \in Tokens :
       Edit("push_token", token, push_token_in(Cur, token),
            push_token_in(ShadowCur, token), None)

\* Builder::push_token_in on a BHole: push_expr panics.
PushTokenPanic ==
  /\ ~has_children(Cur)
  /\ Panic("push_token", None)

\* A query (&self) on the Builder pointed at.
Query(op, ret) ==
  /\ Running
  /\ last' = Called(op, None, Some(ret), FALSE)
  /\ UNCHANGED <<builder, lens, shadow, failed, other, pattern>>

IsHole == Query("is_hole", is_hole(Cur))

HasChildren == Query("has_children", has_children(Cur))

CanFinish ==
  /\ Running
  /\ last' = Called("can_finish", None, Some(can_finish(Cur)), FALSE)
  /\ UNCHANGED <<builder, lens, shadow, failed, other, pattern>>

\* Lens::fill_builder on a hole.
FillBuilder ==
  /\ Cur.tag = "BHole"
  /\ \E node \in InputBuilders :
       Edit("fill_builder", node, fill_builder(Cur, node),
            fill_builder(ShadowCur, node), None)

\* Lens::fill_builder on a Builder that is not a hole.
FillBuilderPanic ==
  /\ Cur.tag # "BHole"
  /\ Panic("fill_builder", None)

\* Lens::fill_expr on a hole.
FillExpr ==
  /\ Cur.tag = "BHole"
  /\ \E expr \in InputExprs :
       Edit("fill_expr", expr, fill_expr(Cur, expr), fill_expr(ShadowCur, expr), None)

\* Lens::fill_expr on a Builder that is not a hole: fill_builder panics.
FillExprPanic ==
  /\ Cur.tag # "BHole"
  /\ \E expr \in InputExprs : Panic("fill_expr", expr)

\* Lens::fill_token on a hole.
FillToken ==
  /\ Cur.tag = "BHole"
  /\ \E token \in Tokens :
       Edit("fill_token", token, fill_token(Cur, token), fill_token(ShadowCur, token),
            None)

\* Lens::fill_token on a Builder that is not a hole: fill_builder panics.
FillTokenPanic ==
  /\ Cur.tag # "BHole"
  /\ \E token \in Tokens : Panic("fill_token", token)

\* Mutant: the Lens returned points at the first child.
VisitChildFirst ==
  \E child_index \in 1..Len(children_of(Cur)) :
    /\ Running
    /\ has_children(Cur)
    /\ builder' = ReplaceAt(builder, lens, child_exprs_mut(Cur))
    /\ shadow' = ReplaceAt(shadow, lens, child_exprs_mut(ShadowCur))
    /\ lens' = Append(lens, 1)
    /\ last' = Called("visit_child", child_index, None, FALSE)
    /\ UNCHANGED <<failed, other, pattern>>

\* Lens::visit_child / child_exprs()[child_index], child_index in bounds.
VisitChild ==
  \E child_index \in 1..Len(children_of(Cur)) :
    /\ Running
    /\ has_children(Cur)
    /\ builder' = ReplaceAt(builder, lens, child_exprs_mut(Cur))
    /\ shadow' = ReplaceAt(shadow, lens, child_exprs_mut(ShadowCur))
    /\ lens' = Append(lens, child_index)
    /\ last' = Called("visit_child", child_index, None, FALSE)
    /\ UNCHANGED <<failed, other, pattern>>

\* Lens::visit_child on a hole, or with the first child_index out of bounds:
\* a BExpr is deconstructed into a BPart before the index is looked up.
VisitChildPanic ==
  /\ Running
  /\ builder' = ReplaceAt(builder, lens, child_exprs_mut(Cur))
  /\ shadow' = ReplaceAt(shadow, lens, child_exprs_mut(ShadowCur))
  /\ last' = Called("visit_child", Len(children_of(Cur)) + 1, None, TRUE)
  /\ UNCHANGED <<lens, failed, other, pattern>>

\* Builder::finish on the Builder pointed at. With retry, the shadow skips
\* the calls that return None; without, it follows the Builder.
FinishCall(retry) ==
  LET done == finish(Cur)
      sdone == finish(ShadowCur)
  IN /\ Running
     /\ builder' = ReplaceAt(builder, lens, done.self)
     /\ shadow' = IF retry /\ ~done.ret.some THEN shadow
                  ELSE ReplaceAt(shadow, lens, sdone.self)
     /\ failed' = (failed \/ (retry /\ ~done.ret.some))
     /\ last' = Called("finish", sdone.ret, done.ret, FALSE)
     /\ UNCHANGED <<lens, other, pattern>>

Finish == FinishCall(FALSE)

RetryFinish == FinishCall(TRUE)

Next ==
  \/ FromBuilder
  \/ TakeToken
  \/ SetToken
  \/ ChildExprs
  \/ ChildExprsPanic
  \/ PushChild
  \/ PushChildPanic
  \/ PushExpr
  \/ PushExprPanic
  \/ PushToken
  \/ PushTokenPanic
  \/ IsHole
  \/ HasChildren
  \/ CanFinish
  \/ FillBuilder
  \/ FillBuilderPanic
  \/ VisitChild
  \/ VisitChildPanic
  \/ Finish

Spec == Init /\ [][Next]_vars

\* Lens::push_builder on a Builder that is not a hole.
LensPushBuilder ==
  /\ Cur.tag # "BHole"
  /\ \E child \in InputBuilders :
       Edit("Lens::push_builder", child, push_builder(Cur, child),
            push_builder(ShadowCur, child), None)

\* Lens::push_builder on a hole.
LensPushBuilderPanic ==
  /\ Cur.tag = "BHole"
  /\ \E child \in InputBuilders : Panic("Lens::push_builder", child)

\* Lens::push_expr on a Builder that is not a hole.
LensPushExpr ==
  /\ Cur.tag # "BHole"
  /\ \E expr \in InputExprs :
       Edit("Lens::push_expr", expr, Lens_push_expr(Cur, expr),
            Lens_push_expr(ShadowCur, expr), None)

\* Lens::push_expr on a hole: push_builder panics.
LensPushExprPanic ==
  /\ Cur.tag = "BHole"
  /\ \E expr \in InputExprs : Panic("Lens::push_expr", expr)

\* Lens::push_token on a Builder that is not a hole.
LensPushToken ==
  /\ Cur.tag # "BHole"
  /\ \E token \in Tokens :
       Edit("Lens::push_token", token, Lens_push_token(Cur, token),
            Lens_push_token(ShadowCur, token), None)

\* Lens::push_token on a hole: push_builder panics.
LensPushTokenPanic ==
  /\ Cur.tag = "BHole"
  /\ \E token \in Tokens : Panic("Lens::push_token", token)

\* format!("{}", builder.clone().finish()) on the root, which can finish: the
\* text displayed; the Builder itself is left as it is.
DisplayFinished ==
  /\ Running
  /\ can_finish(builder)
  /\ last' = Called("display", None,
                    Some(Formatted(Expr_fmt(finish(builder).ret.value))), FALSE)
  /\ UNCHANGED <<builder, lens, shadow, failed, other, pattern>>

\* The Lens: fills, pushes and descents, and the display of what was built.
NextLens ==
  \/ FromBuilder
  \/ FillBuilder
  \/ FillBuilderPanic
  \/ FillExpr
  \/ FillExprPanic
  \/ FillToken
  \/ FillTokenPanic
  \/ PushChild
  \/ PushChildPanic
  \/ PushToken
  \/ PushTokenPanic
  \/ LensPushBuilder
  \/ LensPushBuilderPanic
  \/ LensPushExpr
  \/ LensPushExprPanic
  \/ LensPushToken
  \/ LensPushTokenPanic
  \/ VisitChild
  \/ VisitChildPanic
  \/ DisplayFinished

SpecLens == Init /\ [][NextLens]_vars

\* The finish that takes the Builder by value: largest number of nodes of
\* the Builder.
ConsumeNodes == 3

InitConsume ==
  /\ builder \in BuildersUpTo(ConsumeNodes)
  /\ lens = <<>>
  /\ shadow = builder
  /\ failed = FALSE
  /\ other = BHole
  /\ pattern = ExprPattern_from_token(WildcardPattern)
  /\ last = [op |-> "new", arg |-> None, root |-> builder, pre |-> builder,
             spre |-> builder, ret |-> None, panicked |-> FALSE]

\* builder.finish(), built with or without debug_assertions; the Builder is
\* moved into the call, nothing is called on it afterwards.
FinishOwned ==
  /\ last.op = "new"
  /\ \E debug_assertions \in BOOLEAN :
       LET done == finish_owned(builder, debug_assertions)
       IN last' = Called("Builder::finish", debug_assertions, done.ret, done.panicked)
  /\ UNCHANGED <<builder, lens, shadow, failed, other, pattern>>

NextConsume ==
  \/ FinishOwned

SpecConsume == InitConsume /\ [][NextConsume]_vars

\* The calls that move the state of a Builder out and put another in place,
\* on the root and, through a Lens, on the nested Builders.
NextEdit ==
  \/ FromBuilder
  \/ TakeToken
  \/ SetToken
  \/ ChildExprs
  \/ PushChild
  \/ PushExpr
  \/ VisitChild
  \/ Finish

SpecEdit == Init /\ [][NextEdit]_vars

\* The edits that return, a failed finish leaving the shadow behind.
NextRetry ==
  \/ FromBuilder
  \/ TakeToken
  \/ SetToken
  \/ PushChild
  \/ PushExpr
  \/ FillBuilder
  \/ VisitChild
  \/ RetryFinish

SpecRetry == Init /\ [][NextRetry]_vars

------------------------------------------------------------------------------
\* Comparisons: the operands are drawn from the Builders of bounded size.

InitEq ==
  /\ builder \in BuildersUpTo(EqNodes)
  /\ other \in BuildersUpTo(EqOtherNodes)
  /\ pattern = ExprPattern_from_token(WildcardPattern)
  /\ lens = <<>>
  /\ shadow = builder
  /\ failed = FALSE
  /\ last = [op |-> "new", arg |-> None, root |-> builder, pre |-> builder,
             spre |-> builder, ret |-> None, panicked |-> FALSE]

Compared(op, lr, rl, refl) ==
  /\ last' = Called(op, other, [lr |-> lr, rl |-> rl, refl |-> refl], FALSE)
  /\ UNCHANGED <<builder, lens, shadow, failed, other, pattern>>

\* builder == other, other == builder, builder == builder
EqBuilder ==
  Compared("eq_builder", builder_eq(builder, other), builder_eq(other, builder),
           builder_eq(builder, builder))

\* builder == expr, expr == builder, expr == expr, for the Expr of other
EqExpr ==
  /\ other.tag = "BExpr"
  /\ Compared("eq_expr", eq_expr(builder, other.expr), eq_builder(other.expr, builder),
              expr_eq(other.expr, other.expr))

\* Expr == Expr in both orders, for the Exprs of builder and of other
ExprEq ==
  /\ builder.tag = "BExpr"
  /\ other.tag = "BExpr"
  /\ Compared("expr_eq", expr_eq(builder.expr, other.expr),
              expr_eq(other.expr, builder.expr), expr_eq(builder.expr, builder.expr))

NextEq ==
  \/ EqBuilder
  \/ EqExpr
  \/ ExprEq

SpecEq == InitEq /\ [][NextEq]_vars

------------------------------------------------------------------------------
\* Matching: the ExprPattern and the Expr are drawn from bounded sets.

\* Largest number of nodes of an Expr matched against, and of an ExprPattern.
MatchNodes == 3
PatternNodes == 3

\* The child indices a pattern declares are 0..MaxIndex; an Expr of at most
\* MatchNodes nodes has at most MatchNodes - 1 children, so that MaxIndex is
\* out of range for every one of them.
MaxIndex == MatchNodes - 1

\* The values of the EqPatterns at the heads of the patterns.
PatternTokens == {"a"}

HeadPatterns == {WildcardPattern} \cup {EqPattern(t) : t \in PatternTokens}

\* The ExprPatterns of exactly n nodes, and the SparseVecs of ExprPatterns of
\* n nodes in all whose indices are first or more.
RECURSIVE PatternsOfSize(_), SparseVecsOfSize(_, _)
PatternsOfSize(n) ==
  IF n < 1 THEN {}
  ELSE {ExprPattern_from_parts(h, cp, "fmt_pattern") :
          h \in HeadPatterns, cp \in SparseVecsOfSize(n - 1, 0)}

SparseVecsOfSize(n, first) ==
  IF n = 0 THEN {SparseVec_new}
  ELSE UNION {{(index :> p) @@ rest :
                 p \in PatternsOfSize(k), rest \in SparseVecsOfSize(n - k, index + 1)} :
              index \in first..MaxIndex, k \in 1..n}

PatternsUpTo(n) == UNION {PatternsOfSize(k) : k \in 1..n}

ExprsUpTo(n) == UNION {ExprsOfSize(k) : k \in 1..n}

\* An Expr with three children, and patterns with a wildcard head that declare
\* the children 0 and 2: the child 2 the one of the Expr, another token, and
\* with the child 5 declared as well.
ScenarioExpr ==
  Expr_from_parts("a", <<Expr_from_token("a"), Expr_from_token("a"),
                         Expr_from_token("b")>>, "fmt_expr")

ScenarioPattern(token) ==
  ExprPattern_from_parts(WildcardPattern,
                         (0 :> ExprPattern_from_token(WildcardPattern))
                           @@ (2 :> ExprPattern_from_token(EqPattern(token))),
                         "fmt_pattern")

ScenarioPatternOutOfRange ==
  ExprPattern_from_parts(WildcardPattern,
                         ScenarioPattern("b").child_patterns
                           @@ (5 :> ExprPattern_from_token(WildcardPattern)),
                         "fmt_pattern")

ScenarioPatterns == {ScenarioPattern("b"), ScenarioPattern("c"), ScenarioPatternOutOfRange}

InitMatch ==
  /\ \/ /\ builder \in {BExpr(e) : e \in ExprsUpTo(MatchNodes)}
        /\ pattern \in PatternsUpTo(PatternNodes)
     \/ /\ builder = BExpr(ScenarioExpr)
        /\ pattern \in ScenarioPatterns
  /\ lens = <<>>
  /\ shadow = builder
  /\ failed = FALSE
  /\ other = BHole
  /\ last = [op |-> "new", arg |-> None, root |-> builder, pre |-> builder,
             spre |-> builder, ret |-> None, panicked |-> FALSE]

\* pattern.match_expr(expr), for the Expr of builder
MatchExpr ==
  /\ Running
  /\ builder.tag = "BExpr"
  /\ last' = Called("match_expr", pattern, Some(match_expr(pattern, builder.expr)), FALSE)
  /\ UNCHANGED <<builder, lens, shadow, failed, other, pattern>>

NextMatch ==
  \/ MatchExpr

SpecMatch == InitMatch /\ [][NextMatch]_vars

\* Matching against a Builder: largest number of nodes of the Builder and of
\* the ExprPattern.
MatchBuilderNodes == 3
BuilderPatternNodes == 2

\* A pattern that declares a child under a declared child.
NestedPatterns ==
  {ExprPattern_from_parts(
     h, (i :> ExprPattern_from_parts(WildcardPattern, (0 :> ExprPattern_from_token(g)),
                                     "fmt_pattern")),
     "fmt_pattern") : h \in HeadPatterns, g \in HeadPatterns, i \in {0, 1}}

InitMatchBuilder ==
  /\ builder \in BuildersUpTo(MatchBuilderNodes)
  /\ pattern \in PatternsUpTo(BuilderPatternNodes) \cup NestedPatterns
  /\ lens = <<>>
  /\ shadow = builder
  /\ failed = FALSE
  /\ other = BHole
  /\ last = [op |-> "new", arg |-> None, root |-> builder, pre |-> builder,
             spre |-> builder, ret |-> None, panicked |-> FALSE]

\* pattern.match_builder(builder)
MatchBuilder ==
  /\ Running
  /\ last' = Called("match_builder", pattern, Some(match_builder(pattern, builder)), FALSE)
  /\ UNCHANGED <<builder, lens, shadow, failed, other, pattern>>

NextMatchBuilder ==
  \/ MatchBuilder

SpecMatchBuilder == InitMatchBuilder /\ [][NextMatchBuilder]_vars

\* Matching while children are pushed: largest number of nodes of the
\* Builder before the first push.
MatchPushNodes == 2

InitMatchPush ==
  /\ builder \in BuildersUpTo(MatchPushNodes)
  /\ pattern \in PatternsUpTo(BuilderPatternNodes) \cup NestedPatterns
  /\ lens = <<>>
  /\ shadow = builder
  /\ failed = FALSE
  /\ other = BHole
  /\ last = [op |-> "new", arg |-> None, root |-> builder, pre |-> builder,
             spre |-> builder, ret |-> None, panicked |-> FALSE]

\* Pushes onto the root of the Builder matched against.
NextMatchPush ==
  \/ PushChild
  \/ PushExpr
  \/ PushToken

SpecMatchPush == InitMatchPush /\ [][NextMatchPush]_vars

\* Display: largest number of nodes of an Expr displayed.
FmtNodes == 3

\* The Exprs displayed: with the default formatter throughout, and with a
\* child that has a formatter of its own.
FmtExprs ==
  ExprsUpTo(FmtNodes) \cup InputExprs
    \cup {Expr_from_parts("a", <<c, Expr_from_token("b")>>, "fmt_expr") : c \in InputExprs}

InitFmt ==
  /\ \/ /\ builder \in {BExpr(e) : e \in FmtExprs}
        /\ pattern = ExprPattern_from_token(WildcardPattern)
     \/ /\ builder = BExpr(ScenarioExpr)
        /\ pattern \in PatternsUpTo(PatternNodes) \cup ScenarioPatterns
  /\ lens = <<>>
  /\ shadow = builder
  /\ failed = FALSE
  /\ other = BHole
  /\ last = [op |-> "new", arg |-> None, root |-> builder, pre |-> builder,
             spre |-> builder, ret |-> None, panicked |-> FALSE]

\* format!("{}", expr), for the Expr of builder: what Display::fmt writes
FmtExpr ==
  /\ Running
  /\ builder.tag = "BExpr"
  /\ last' = Called("fmt_expr", None, Some(Expr_fmt(builder.expr)), FALSE)
  /\ UNCHANGED <<builder, lens, shadow, failed, other, pattern>>

\* format!("{}", pattern): what Display::fmt writes
FmtPattern ==
  /\ Running
  /\ last' = Called("fmt_pattern", pattern, Some(ExprPattern_fmt(pattern)), FALSE)
  /\ UNCHANGED <<builder, lens, shadow, failed, other, pattern>>

\* format!("{}", pattern) for the Pattern of the patterns module with the
\* head and the declared children of pattern
PatternsFmtPattern ==
  /\ Running
  /\ last' = Called("patterns::fmt_pattern", pattern,
                    Some(Pattern_Display_fmt(pattern)), FALSE)
  /\ UNCHANGED <<builder, lens, shadow, failed, other, pattern>>

NextFmt ==
  \/ FmtExpr
  \/ FmtPattern
  \/ PatternsFmtPattern

SpecFmt == InitFmt /\ [][NextFmt]_vars

------------------------------------------------------------------------------
\* Properties

\* The tree a Builder stands for, whatever states hold its nodes: a BHole, or
\* a head (none for a BTokenHole) over the trees of the children, in order.
RECURSIVE ExprShape(_)
ExprShape(expr) ==
  [hole |-> FALSE, head |-> Some(expr.head_token),
   children |-> [i \in 1..Len(expr.child_exprs) |-> ExprShape(expr.child_exprs[i])]]

RECURSIVE Shape(_)
Shape(self) ==
  CASE self.tag = "BHole" -> [hole |-> TRUE, head |-> None, children |-> <<>>]
    [] self.tag = "BTokenHole" ->
         [hole |-> FALSE, head |-> None,
          children |-> [i \in 1..Len(self.child_exprs) |-> Shape(self.child_exprs[i])]]
    [] self.tag = "BExpr" -> ExprShape(self.expr)
    [] self.tag = "BPart" ->
         [hole |-> FALSE, head |-> Some(self.inner.head_token),
          children |-> [i \in 1..Len(self.inner.child_exprs) |->
                          Shape(self.inner.child_exprs[i])]]

\* A BHole or a BTokenHole somewhere in the subtree.
RECURSIVE HasHole(_)
HasHole(self) ==
  \/ is_hole(self)
  \/ /\ self.tag = "BPart"
     /\ \E i \in 1..Len(self.inner.child_exprs) : HasHole(self.inner.child_exprs[i])

\* The Expr built directly from the head and the children of a Builder
\* without holes.
RECURSIVE Direct(_)
Direct(self) ==
  CASE self.tag = "BExpr" -> self.expr
    [] self.tag = "BPart" ->
         Expr_from_parts(self.inner.head_token,
                         [i \in 1..Len(self.inner.child_exprs) |->
                            Direct(self.inner.child_exprs[i])],
                         self.inner.fmt_expr)

FinishCalled == last.op = "finish"

\* C1: finish on a Builder that cannot finish (a hole at any depth) returns
\* None and leaves the tree as it was: the same head at every node, the same
\* children in the same order, every hole where it was, and can_finish still
\* false.
C1_FailedFinishKeepsStructure ==
  (FinishCalled /\ ~can_finish(last.pre)) =>
    /\ ~last.ret.some
    /\ Shape(Cur) = Shape(last.pre)
    /\ Shape(builder) = Shape(last.root)
    /\ ~can_finish(Cur)

\* A failed finish on a BPart that had to put a built child back.
C1_Witness ==
  /\ FinishCalled
  /\ ~last.ret.some
  /\ last.pre.tag = "BPart"
  /\ Cur # last.pre
  /\ Len(last.pre.inner.child_exprs) = 2
  /\ HasHole(last.pre.inner.child_exprs[2])

\* C2: finish returns an Expr exactly when can_finish was true before the call.
C2_FinishIffCanFinish ==
  FinishCalled => (last.ret.some <=> can_finish(last.pre))

\* The two outcomes on a BPart with children.
C2_Witness ==
  /\ FinishCalled
  /\ last.pre.tag = "BPart"
  /\ Len(last.pre.inner.child_exprs) = 2
  /\ last.ret.some

\* C3: finish of a complete Builder yields the Expr with the head and the
\* children of the Builder, in push order, recursively: the Expr built
\* directly from them; finish of from_expr(e) yields e.
C3_FinishRoundTrip ==
  (FinishCalled /\ can_finish(last.pre)) =>
    /\ last.ret.some
    /\ ExprShape(last.ret.value) = Shape(last.pre)
    /\ last.ret.value = Direct(last.pre)
    /\ expr_eq(last.ret.value, Direct(last.pre))
    /\ last.pre.tag = "BExpr" => last.ret.value = last.pre.expr

\* A finished BPart with two different children, one a BPart and one a BExpr.
C3_Witness ==
  /\ FinishCalled
  /\ last.ret.some
  /\ last.pre.tag = "BPart"
  /\ Len(last.pre.inner.child_exprs) = 2
  /\ last.pre.inner.child_exprs[1].tag = "BPart"
  /\ last.pre.inner.child_exprs[2].tag = "BExpr"
  /\ Shape(last.pre.inner.child_exprs[1]) # Shape(last.pre.inner.child_exprs[2])

\* C4: when finish returns an Expr, the Builder it was called on is BHole.
C4_FinishedBuilderIsHole ==
  (FinishCalled /\ last.ret.some) => Cur = BHole

\* A BPart with a child was finished.
C4_Witness ==
  /\ FinishCalled
  /\ last.ret.some
  /\ last.pre.tag = "BPart"
  /\ Len(last.pre.inner.child_exprs) > 0
  /\ Cur = BHole

\* C5: after finish calls that returned None, a finish call returns what it
\* would have returned had those calls never been made (last.arg, from the
\* shadow): an Expr once every hole is filled, and the same Expr.
C5_RetryAfterFailedFinish ==
  (FinishCalled /\ failed) => last.ret = last.arg

\* A finish that succeeds after a failed one had changed the state of a child.
C5_Witness ==
  /\ FinishCalled
  /\ failed
  /\ last.ret.some
  /\ last.pre # last.spre
  /\ last.ret.value = Direct(last.spre)

\* C6: can_finish is true exactly when no BHole and no BTokenHole is in the
\* subtree: false for a hole, true for a BExpr, and for a BPart true exactly
\* when every child can finish.
C6_CanFinishIffNoHole ==
  (last.op = "can_finish") =>
    /\ last.ret.value <=> ~HasHole(last.pre)
    /\ is_hole(last.pre) => ~last.ret.value
    /\ last.pre.tag = "BExpr" => last.ret.value
    /\ last.pre.tag = "BPart" =>
         (last.ret.value <=>
            \A i \in 1..Len(last.pre.inner.child_exprs) :
              can_finish(last.pre.inner.child_exprs[i]))

\* can_finish was false for a BPart because of its second child.
C6_Witness ==
  /\ last.op = "can_finish"
  /\ ~last.ret.value
  /\ last.pre.tag = "BPart"
  /\ Len(last.pre.inner.child_exprs) = 2
  /\ can_finish(last.pre.inner.child_exprs[1])

\* C7: a Builder that cannot finish is equal to no Builder and to no Expr, in
\* either operand order, itself included.
C7_HoleNeverEqual ==
  /\ (last.op = "eq_builder" /\ ~can_finish(builder)) =>
       ~last.ret.lr /\ ~last.ret.rl /\ ~last.ret.refl
  /\ (last.op = "eq_expr" /\ ~can_finish(builder)) => ~last.ret.lr /\ ~last.ret.rl

\* A BPart with a hole two levels down was compared with a Builder of the
\* same head and number of children.
C7_Witness ==
  /\ last.op = "eq_builder"
  /\ builder.tag = "BPart"
  /\ other.tag = "BPart"
  /\ builder.inner.head_token = other.inner.head_token
  /\ Len(builder.inner.child_exprs) = 1
  /\ Len(other.inner.child_exprs) = 1
  /\ builder.inner.child_exprs[1].tag = "BPart"
  /\ HasHole(builder.inner.child_exprs[1])

\* C8: two Exprs are equal exactly when they have equal heads, the same
\* number of children, and pairwise equal children, recursively.
C8_ExprEqIffSameTree ==
  (last.op = "expr_eq") =>
    /\ last.ret.lr <=> ExprShape(builder.expr) = ExprShape(other.expr)
    /\ last.ret.rl <=> ExprShape(builder.expr) = ExprShape(other.expr)

\* Two Exprs with the same head and a different number of children.
C8_Witness ==
  /\ last.op = "expr_eq"
  /\ builder.expr.head_token = other.expr.head_token
  /\ Len(builder.expr.child_exprs) > Len(other.expr.child_exprs)
  /\ Len(other.expr.child_exprs) > 0
  /\ builder.expr.child_exprs[1] = other.expr.child_exprs[1]
  /\ ~last.ret.lr

\* C9: every Expr is equal to itself.
C9_ExprEqReflexive ==
  /\ (last.op = "expr_eq") => last.ret.refl
  /\ (last.op = "eq_expr") => last.ret.refl

\* An Expr with children under children was compared with itself.
C9_Witness ==
  /\ last.op = "expr_eq"
  /\ Len(builder.expr.child_exprs) = 1
  /\ Len(builder.expr.child_exprs[1].child_exprs) = 1
  /\ last.ret.refl

\* C10: two complete Builders are equal exactly when the Exprs they finish to
\* are equal, whatever states hold their nodes; a BExpr and its promotion to
\* BPart are equal in both operand orders.
C10_BuilderEqIsExprEq ==
  (last.op = "eq_builder" /\ can_finish(builder) /\ can_finish(other)) =>
    /\ last.ret.lr <=> expr_eq(finish(builder).ret.value, finish(other).ret.value)
    /\ last.ret.rl <=> expr_eq(finish(other).ret.value, finish(builder).ret.value)
    /\ (builder.tag = "BExpr" /\ other = child_exprs_mut(builder)) =>
         last.ret.lr /\ last.ret.rl

\* A BExpr with a child was compared with its promotion to BPart.
C10_Witness ==
  /\ last.op = "eq_builder"
  /\ builder.tag = "BExpr"
  /\ Len(builder.expr.child_exprs) = 1
  /\ other = child_exprs_mut(builder)
  /\ last.ret.lr
  /\ last.ret.rl

\* C11: take_token on a BExpr or a BPart returns the head and leaves a
\* BTokenHole with the same children in the same order; on a BHole or a
\* BTokenHole it returns None and changes nothing.
C11_TakeTokenLeavesTokenHole ==
  (last.op = "take_token") =>
    /\ last.pre.tag \in {"BExpr", "BPart"} =>
         /\ last.ret = Shape(last.pre).head
         /\ Cur.tag = "BTokenHole"
         /\ Len(Cur.child_exprs) = Len(Shape(last.pre).children)
         /\ Shape(Cur).children = Shape(last.pre).children
         /\ last.pre.tag = "BPart" => Cur.child_exprs = last.pre.inner.child_exprs
    /\ last.pre.tag \in {"BHole", "BTokenHole"} =>
         /\ ~last.ret.some
         /\ Cur = last.pre
         /\ builder = last.root

\* The head of a BExpr with a child was taken.
C11_Witness ==
  /\ last.op = "take_token"
  /\ last.pre.tag = "BExpr"
  /\ Len(last.pre.expr.child_exprs) = 1
  /\ last.ret = Some(last.pre.expr.head_token)
  /\ Cur.tag = "BTokenHole"

\* C12: set_token(t) on a BTokenHole leaves a BPart with head t and the same
\* children in the same order; on a BExpr or a BPart it replaces the head by
\* t, keeps the children, and returns the previous head.
C12_SetTokenSetsHead ==
  (last.op = "set_token") =>
    /\ last.pre.tag = "BTokenHole" =>
         /\ Cur.tag = "BPart"
         /\ Cur.inner.head_token = last.arg
         /\ Cur.inner.child_exprs = last.pre.child_exprs
    /\ last.pre.tag \in {"BExpr", "BPart"} =>
         /\ Shape(Cur).head = Some(last.arg)
         /\ Shape(Cur).children = Shape(last.pre).children
         /\ last.ret = Shape(last.pre).head

\* The head of a BPart with children was replaced by a different token.
C12_Witness ==
  /\ last.op = "set_token"
  /\ last.pre.tag = "BPart"
  /\ Len(last.pre.inner.child_exprs) = 2
  /\ last.pre.inner.head_token # last.arg
  /\ last.ret = Some(last.pre.inner.head_token)

\* C13: set_token on a BHole returns None and leaves the BHole in place.
C13_SetTokenOnHoleIsNoOp ==
  (last.op = "set_token" /\ last.pre.tag = "BHole") =>
    /\ ~last.ret.some
    /\ Cur = BHole
    /\ builder = last.root

\* set_token was called on a BHole that is a child.
C13_Witness ==
  /\ last.op = "set_token"
  /\ last.pre.tag = "BHole"
  /\ lens # <<>>
  /\ Cur.tag = "BHole"

\* C14: child_exprs on a BExpr leaves a BPart with the same head, formatter
\* and number of children, the i-th child a BExpr holding the i-th child of
\* the Expr; on a BTokenHole or a BPart the Builder is unchanged; the list
\* returned is the child list of the Builder.
C14_ChildExprsDeconstructsExpr ==
  (last.op = "child_exprs" /\ ~last.panicked) =>
    /\ last.pre.tag = "BExpr" =>
         /\ Cur.tag = "BPart"
         /\ Cur.inner.head_token = last.pre.expr.head_token
         /\ Cur.inner.fmt_expr = last.pre.expr.fmt_expr
         /\ Len(Cur.inner.child_exprs) = Len(last.pre.expr.child_exprs)
         /\ \A i \in 1..Len(last.pre.expr.child_exprs) :
              /\ Cur.inner.child_exprs[i].tag = "BExpr"
              /\ Cur.inner.child_exprs[i].expr = last.pre.expr.child_exprs[i]
         /\ last.ret = Some(Cur.inner.child_exprs)
    /\ last.pre.tag = "BTokenHole" =>
         /\ Cur = last.pre
         /\ last.ret = Some(last.pre.child_exprs)
    /\ last.pre.tag = "BPart" =>
         /\ Cur = last.pre
         /\ last.ret = Some(last.pre.inner.child_exprs)

\* child_exprs was called on a BExpr with a child and its own formatter.
C14_Witness ==
  /\ last.op = "child_exprs"
  /\ ~last.panicked
  /\ last.pre.tag = "BExpr"
  /\ Len(last.pre.expr.child_exprs) = 1
  /\ last.pre.expr.fmt_expr = "fmt_custom"
  /\ Cur.tag = "BPart"

\* C15: child_exprs, push_child, push_expr and push_token panic exactly when
\* called on a BHole, which they leave as it was, and has_children is false
\* exactly for a BHole.
C15_HoleHasNoChildren ==
  /\ (last.op \in {"child_exprs", "push_child", "push_expr", "push_token"}) =>
       /\ last.panicked <=> last.pre.tag = "BHole"
       /\ last.panicked => (builder = last.root /\ Cur = BHole)
  /\ (last.op = "has_children") =>
       (last.ret.value <=> last.pre.tag # "BHole")

\* push_token panicked on a BHole that is a child.
C15_Witness ==
  /\ last.op = "push_token"
  /\ last.panicked
  /\ last.pre.tag = "BHole"
  /\ lens # <<>>

\* C16: push_child(c) on a Builder with n children leaves n + 1 children, the
\* first n the previous ones in the same order and the last one c, under the
\* same head; it is child_exprs().push(c).
C16_PushChildAppends ==
  (last.op = "push_child" /\ ~last.panicked) =>
    LET n == Len(Shape(last.pre).children)
        promoted == child_exprs_mut(last.pre)
    IN /\ Len(children_of(Cur)) = n + 1
       /\ SubSeq(Shape(Cur).children, 1, n) = Shape(last.pre).children
       /\ SubSeq(children_of(Cur), 1, n) = children_of(last.pre)
       /\ children_of(Cur)[n + 1] = last.arg
       /\ Shape(Cur).head = Shape(last.pre).head
       /\ Cur = with_children(promoted, Append(children_of(promoted), last.arg))

\* A BHole was pushed onto a BExpr that had a child.
C16_Witness ==
  /\ last.op = "push_child"
  /\ ~last.panicked
  /\ last.pre.tag = "BExpr"
  /\ Len(last.pre.expr.child_exprs) = 1
  /\ last.arg = BHole
  /\ Len(children_of(Cur)) = 2

\* The Expr pushed by the last push_expr or push_token.
PushedExpr == IF last.op = "push_token" THEN Expr_from_token(last.arg) ELSE last.arg

PushExprCalled == last.op \in {"push_expr", "push_token"} /\ ~last.panicked

\* C17 as stated: push_expr and push_token leave the Builder in the state that
\* child_exprs().push(BExpr(child)) would produce, a BExpr becoming a BPart.
C17_PushExprPromotes ==
  PushExprCalled =>
    /\ Cur = push_child(last.pre, BExpr(PushedExpr))
    /\ last.pre.tag = "BExpr" => Cur.tag = "BPart"

\* C17 amended: on a BTokenHole or a BPart, push_expr and push_token leave the
\* state that child_exprs().push(BExpr(child)) would produce; a BExpr is not
\* deconstructed: it stays a BExpr, the child appended to the children of its
\* Expr, which is the same tree as, and compares equal to, the BPart that
\* child_exprs().push(BExpr(child)) would produce.
C17_PushExprKeepsExpr ==
  PushExprCalled =>
    LET pushed == push_child(last.pre, BExpr(PushedExpr))
    IN /\ last.pre.tag \in {"BTokenHole", "BPart"} => Cur = pushed
       /\ last.pre.tag = "BExpr" =>
            /\ Cur.tag = "BExpr"
            /\ Cur.expr.head_token = last.pre.expr.head_token
            /\ Cur.expr.child_exprs = Append(last.pre.expr.child_exprs, PushedExpr)
            /\ pushed.tag = "BPart"
            /\ Shape(Cur) = Shape(pushed)
            /\ builder_eq(Cur, pushed)
            /\ builder_eq(pushed, Cur)

\* An Expr was pushed onto a BExpr that had a child.
C17_Witness ==
  /\ last.op = "push_expr"
  /\ ~last.panicked
  /\ last.pre.tag = "BExpr"
  /\ Len(last.pre.expr.child_exprs) = 1
  /\ Cur.tag = "BExpr"
  /\ Len(Cur.expr.child_exprs) = 2

\* C18: in every reachable state of a Builder, is_hole is true exactly for a
\* BHole and a BTokenHole (the Builders without a head), and has_children is
\* true exactly for a BTokenHole, a BExpr and a BPart (every Builder but BHole).
C18_IsHoleHasChildrenByState ==
  /\ Cur.tag \in {"BHole", "BTokenHole", "BExpr", "BPart"}
  /\ (last.op = "is_hole") =>
       /\ last.ret.value <=> last.pre.tag \in {"BHole", "BTokenHole"}
       /\ last.ret.value <=> ~Shape(last.pre).head.some
  /\ (last.op = "has_children") =>
       /\ last.ret.value <=> last.pre.tag \in {"BTokenHole", "BExpr", "BPart"}
       /\ last.ret.value <=> ~Shape(last.pre).hole

\* is_hole was true for a BTokenHole with a child.
C18_Witness ==
  /\ last.op = "is_hole"
  /\ last.pre.tag = "BTokenHole"
  /\ Len(last.pre.child_exprs) = 1
  /\ last.ret.value

\* The Builder above the one pointed at, before and after the last call.
ParentBefore == NodeAt(last.root, SubSeq(lens, 1, Len(lens) - 1))
Parent == NodeAt(builder, SubSeq(lens, 1, Len(lens) - 1))

\* C19: after a push of child c onto Builder b, can_finish of the result is
\* can_finish(b) before the push and can_finish(c); after the fill of a BHole
\* child, the parent can finish exactly when it has a head, its other
\* children can finish and the Builder filled in can finish.
C19_CanFinishAfterPush ==
  /\ (last.op = "push_child" /\ ~last.panicked) =>
       (can_finish(Cur) <=> (can_finish(last.pre) /\ can_finish(last.arg)))
  /\ PushExprCalled => (can_finish(Cur) <=> can_finish(last.pre))
  /\ (last.op = "fill_builder" /\ ~last.panicked /\ lens # <<>>) =>
       (can_finish(Parent) <=>
          /\ ParentBefore.tag = "BPart"
          /\ \A j \in 1..Len(children_of(ParentBefore)) :
               j # lens[Len(lens)] => can_finish(children_of(ParentBefore)[j])
          /\ can_finish(last.arg))

\* The BHole pushed as second child of a complete Builder was filled, and the
\* Builder can finish again.
C19_Witness ==
  /\ last.op = "fill_builder"
  /\ ~last.panicked
  /\ lens = <<2>>
  /\ last.pre = BHole
  /\ ~can_finish(last.root)
  /\ can_finish(builder)

\* The paths (child indices from the root) of the nodes of a pattern, the
\* pattern at a path, and the Expr at a path when there is one.
RECURSIVE PatternPaths(_)
PatternPaths(p) ==
  {<<>>} \cup UNION {{<<i>> \o q : q \in PatternPaths(p.child_patterns[i])} :
                     i \in DOMAIN p.child_patterns}

RECURSIVE PatternAt(_, _)
PatternAt(p, path) ==
  IF path = <<>> THEN p ELSE PatternAt(p.child_patterns[Head(path)], Tail(path))

RECURSIVE ExprHas(_, _)
ExprHas(expr, path) ==
  \/ path = <<>>
  \/ /\ Head(path) < Len(expr.child_exprs)
     /\ ExprHas(expr.child_exprs[Head(path) + 1], Tail(path))

RECURSIVE ExprAt(_, _)
ExprAt(expr, path) ==
  IF path = <<>> THEN expr ELSE ExprAt(expr.child_exprs[Head(path) + 1], Tail(path))

\* The head of a pattern accepts a token.
HeadAccepts(head, token) == head = WildcardPattern \/ head = EqPattern(token)

MatchExprCalled == last.op = "match_expr"

\* C20: match_expr is true exactly when the head pattern matches the head of
\* the Expr and every declared child index has a child in the Expr that the
\* sub-pattern matches, recursively: every node of the pattern has an Expr
\* node at the same path whose head its head pattern accepts. A declared index
\* out of range makes it false whatever the other constraints.
C20_MatchExprIffDeclaredMatch ==
  MatchExprCalled =>
    LET expr == builder.expr
        matched == last.ret.value
    IN /\ matched <=>
            /\ HeadAccepts(pattern.head_token, expr.head_token)
            /\ \A i \in DOMAIN pattern.child_patterns :
                 /\ i < Len(expr.child_exprs)
                 /\ match_expr(pattern.child_patterns[i], expr.child_exprs[i + 1])
       /\ matched <=>
            \A path \in PatternPaths(pattern) :
              /\ ExprHas(expr, path)
              /\ HeadAccepts(PatternAt(pattern, path).head_token,
                             ExprAt(expr, path).head_token)
       /\ (\E i \in DOMAIN pattern.child_patterns : i >= Len(expr.child_exprs)) =>
            ~matched
       /\ (expr = ScenarioExpr /\ pattern = ScenarioPattern("b")) => matched
       /\ (expr = ScenarioExpr /\ pattern = ScenarioPattern("c")) => ~matched
       /\ (expr = ScenarioExpr /\ pattern = ScenarioPatternOutOfRange) => ~matched

\* A pattern that declares the children 0 and 2 matched an Expr with three
\* children, the child 1 left unconstrained.
C20_Witness ==
  /\ MatchExprCalled
  /\ DOMAIN pattern.child_patterns = {0, 2}
  /\ pattern.child_patterns[2].head_token = EqPattern("b")
  /\ Len(builder.expr.child_exprs) = 3
  /\ last.ret.value

MatchBuilderCalled == last.op = "match_builder"

\* The head pattern accepts what a BPart or a BTokenHole has for a head.
HeadAcceptsBuilder(head, self) ==
  IF self.tag = "BPart" THEN HeadAccepts(head, self.inner.head_token)
  ELSE head = WildcardPattern

\* Every declared index has a child that the sub-pattern matches.
DeclaredChildrenMatch(p, self) ==
  \A i \in DOMAIN p.child_patterns :
    /\ i < Len(children_of(self))
    /\ match_builder(p.child_patterns[i], children_of(self)[i + 1])

\* The Builder with filler in place of the children the pattern does not declare.
UndeclaredAs(self, p, filler) ==
  with_children(self, [i \in 1..Len(children_of(self)) |->
                         IF (i - 1) \in DOMAIN p.child_patterns
                         THEN children_of(self)[i] ELSE filler])

\* The Builder without its children beyond the largest index the pattern declares.
UpToLastDeclared(self, p) ==
  LET kept == {i \in 1..Len(children_of(self)) :
                 \E index \in DOMAIN p.child_patterns : i - 1 <= index}
  IN with_children(self, SubSeq(children_of(self), 1, Cardinality(kept)))

\* C21: the children at the indices a pattern does not declare impose no
\* constraint in match_builder on a BPart or a BTokenHole: the result is the
\* same with BHoles or BTokenHoles in their place, without the children beyond
\* the largest declared index, and with one more child at an undeclared index.
C21_UndeclaredUnconstrained ==
  (MatchBuilderCalled /\ builder.tag \in {"BPart", "BTokenHole"}) =>
    LET matched == last.ret.value
    IN /\ (HeadAcceptsBuilder(pattern.head_token, builder)
              /\ DeclaredChildrenMatch(pattern, builder)) => matched
       /\ \A filler \in {BHole, new_in} :
            matched <=> match_builder(pattern, UndeclaredAs(builder, pattern, filler))
       /\ matched <=> match_builder(pattern, UpToLastDeclared(builder, pattern))
       /\ \A child \in InputBuilders :
            Len(children_of(builder)) \notin DOMAIN pattern.child_patterns =>
              (matched <=> match_builder(pattern, push_child(builder, child)))

\* A pattern that declares the child 1 alone matched a BPart whose child 0 is
\* a BHole.
C21_Witness ==
  /\ MatchBuilderCalled
  /\ builder.tag = "BPart"
  /\ Len(builder.inner.child_exprs) = 2
  /\ builder.inner.child_exprs[1] = BHole
  /\ DOMAIN pattern.child_patterns = {1}
  /\ last.ret.value

C23_TokenHoleProbe ==
  (MatchBuilderCalled /\ builder.tag = "BTokenHole") =>
    /\ last.ret.value <=>
         /\ pattern.head_token = WildcardPattern
         /\ DeclaredChildrenMatch(pattern, builder)
    /\ pattern.head_token.kind = "EqPattern" => ~last.ret.value
    /\ (pattern.head_token = WildcardPattern /\ DOMAIN pattern.child_patterns = {}) =>
         last.ret.value

\* A pattern with an EqPattern at the head was matched against a BTokenHole
\* whose children meet what the pattern declares.
C23_Witness ==
  /\ MatchBuilderCalled
  /\ builder.tag = "BTokenHole"
  /\ pattern.head_token.kind = "EqPattern"
  /\ DOMAIN pattern.child_patterns = {1}
  /\ DeclaredChildrenMatch(pattern, builder)
  /\ ~last.ret.value

\* C24: for a Builder that can finish, whatever states hold its nodes,
\* match_builder is match_expr on the Expr the Builder finishes to.
C24_MatchBuilderIsMatchExpr ==
  (MatchBuilderCalled /\ can_finish(builder)) =>
    (last.ret.value <=> match_expr(pattern, finish(builder).ret.value))

\* A pattern declaring a child under a child matched a BPart holding a BPart.
C24_Witness ==
  /\ MatchBuilderCalled
  /\ can_finish(builder)
  /\ builder.tag = "BPart"
  /\ Len(builder.inner.child_exprs) = 1
  /\ builder.inner.child_exprs[1].tag = "BPart"
  /\ pattern \in NestedPatterns
  /\ DOMAIN pattern.child_patterns = {0}
  /\ pattern.child_patterns[0].child_patterns[0].head_token = EqPattern("a")
  /\ last.ret.value

------------------------------------------------------------------------------
\* The pattern formatter

FmtPatternCalled == last.op = "fmt_pattern" /\ last.ret.some

Declared(p) == DOMAIN p.child_patterns

\* The j-th declared index in ascending order, j from 1.
NthDeclared(p, j) ==
  CHOOSE i \in Declared(p) : Cardinality({k \in Declared(p) : k < i}) = j - 1

\* The pieces that mark an elision.
ElisionMarkers == {"...", "... ", "...,"}

\* C25: what fmt_pattern writes for a pattern without declared children is
\* the head alone; otherwise the j-th entry written is the display of the
\* child pattern at the j-th smallest declared index, an elision marker is
\* written before the first entry exactly when its index is not 0, and one is
\* written between two successive entries exactly when their indices differ
\* by more than 1.
C25_FmtPatternMarksGaps ==
  FmtPatternCalled =>
    LET out == last.ret.value
        n == Cardinality(Declared(pattern))
    IN /\ out[1] = Pattern_fmt(pattern.head_token)
       /\ n = 0 => out = <<Pattern_fmt(pattern.head_token)>>
       /\ n > 0 =>
            /\ Len(out) >= 4 * n
            /\ out[2] = " ["
            /\ \A j \in 1..n :
                 out[4 * j] =
                   Formatted(ExprPattern_fmt(pattern.child_patterns[NthDeclared(pattern, j)]))
            /\ out[3] \in ElisionMarkers \cup {""}
            /\ out[3] \in ElisionMarkers <=> NthDeclared(pattern, 1) # 0
            /\ \A j \in 2..n :
                 /\ out[4 * j - 3] = ","
                 /\ out[4 * j - 2] \in ElisionMarkers \cup {""}
                 /\ out[4 * j - 2] \in ElisionMarkers
                      <=> NthDeclared(pattern, j) - NthDeclared(pattern, j - 1) > 1
                 /\ out[4 * j - 1] = " "

\* fmt_pattern has displayed a pattern that declares the children 0, 2 and 5:
\* a marker before the second and before the third entry, none before the first.
C25_Witness ==
  /\ FmtPatternCalled
  /\ Declared(pattern) = {0, 2, 5}
  /\ Formatted(last.ret.value) = "Wildcard [Wildcard,..., b,..., Wildcard]"

\* C26 as stated: after the last declared entry of a pattern with declared
\* children, fmt_pattern writes an elision marker.
C26_FmtPatternMarksTail ==
  (FmtPatternCalled /\ Declared(pattern) # {}) =>
    LET out == last.ret.value
        n == Cardinality(Declared(pattern))
    IN \E k \in (4 * n + 1)..Len(out) : out[k] \in ElisionMarkers

\* C26: after the last declared entry of a pattern with declared children,
\* fmt_pattern writes the closing bracket and nothing else: the positions
\* after the last declared index are not marked.
C26_FmtPatternLeavesTailUnmarked ==
  (FmtPatternCalled /\ Declared(pattern) # {}) =>
    LET out == last.ret.value
        n == Cardinality(Declared(pattern))
    IN /\ Len(out) = 4 * n + 1
       /\ out[4 * n + 1] = "]"

\* fmt_pattern has displayed a pattern that declares the child 0 alone, which
\* matches Exprs with any number of further children.
C26_Witness ==
  /\ FmtPatternCalled
  /\ Declared(pattern) = {0}
  /\ match_expr(pattern, ScenarioExpr)
  /\ Formatted(last.ret.value) = "Wildcard [a]"

------------------------------------------------------------------------------
\* The Expr formatter

FmtExprCalled == last.op = "fmt_expr" /\ last.ret.some /\ builder.tag = "BExpr"

\* C27: what the default formatter writes for an Expr without children is the
\* head alone; otherwise it is the head, " [", the displays of the children in
\* order, each after the first preceded by ", ", and "]"; so a [b] displays
\* as "a [b]", a [a, b] as "a [a, b]" and a [b [a]] as "a [b [a]]".
C27_FmtExprDefault ==
  (FmtExprCalled /\ builder.expr.fmt_expr = "fmt_expr") =>
    LET out == last.ret.value
        expr == builder.expr
        n == Len(expr.child_exprs)
        leaf(t) == Expr_from_token(t)
        node(t, cs) == Expr_from_parts(t, cs, "fmt_expr")
    IN /\ out[1] = expr.head_token
       /\ n = 0 => out = <<expr.head_token>>
       /\ n > 0 =>
            /\ Len(out) = 2 * n + 2
            /\ out[2] = " ["
            /\ \A i \in 1..n : out[2 * i + 1] = Formatted(Expr_fmt(expr.child_exprs[i]))
            /\ \A i \in 2..n : out[2 * i] = ", "
            /\ out[2 * n + 2] = "]"
       /\ expr = node("a", <<leaf("b")>>) => Formatted(out) = "a [b]"
       /\ expr = node("a", <<leaf("a"), leaf("b")>>) => Formatted(out) = "a [a, b]"
       /\ expr = node("a", <<node("b", <<leaf("a")>>)>>) => Formatted(out) = "a [b [a]]"

\* The default formatter has displayed a [a, b].
C27_Witness ==
  /\ FmtExprCalled
  /\ builder.expr.fmt_expr = "fmt_expr"
  /\ Len(builder.expr.child_exprs) = 2
  /\ Formatted(last.ret.value) = "a [a, b]"

------------------------------------------------------------------------------
\* The Lens

\* The Builders of the example of Builder::finish: the hole filled with the
\* token a, a child built from the token a pushed, a hole pushed as second
\* child, and that hole filled with the token b.
FilledA == BExpr(Expr_from_token("a"))
PushedA == BExpr(Expr_from_parts("a", <<Expr_from_token("a")>>, "fmt_expr"))
PushedHole == BPart(from_parts("a", <<FilledA, BHole>>, "fmt_expr"))
FilledB == BPart(from_parts("a", <<FilledA, BExpr(Expr_from_token("b"))>>, "fmt_expr"))

\* A call of op with argument arg on the root Builder root, pointed at by a
\* Lens at path, has returned.
Step(op, arg, root, path) ==
  /\ last.op = op
  /\ ~last.panicked
  /\ last.arg = arg
  /\ last.root = root
  /\ last.pre = NodeAt(root, path)

\* C28: fill_token(a) on a hole and push_token(a) give a Builder that, once
\* finished, displays as "a [a]"; push_child(hole), visit_child of the second
\* child and fill_token(b) through the Lens returned then give a Builder that,
\* once finished, displays as "a [a, b]".
C28_FinishExample ==
  /\ Step("fill_token", "a", BHole, <<>>) => builder = FilledA
  /\ Step("push_token", "a", FilledA, <<>>) => builder = PushedA
  /\ Step("display", None, PushedA, lens) => last.ret = Some("a [a]")
  /\ Step("push_child", BHole, PushedA, <<>>) => builder = PushedHole
  /\ Step("visit_child", 2, PushedHole, <<>>) => (builder = PushedHole /\ lens = <<2>>)
  /\ (Step("fill_token", "b", PushedHole, <<2>>) /\ lens = <<2>>) => builder = FilledB
  /\ Step("display", None, FilledB, lens) => last.ret = Some("a [a, b]")

\* The hole pushed as second child was filled with b through the Lens on it,
\* and the Builder finished displays as "a [a, b]".
C28_Witness ==
  /\ Step("display", None, FilledB, lens)
  /\ lens = <<2>>
  /\ last.ret = Some("a [a, b]")

\* What a fill call supplies as a Builder.
Supplied ==
  CASE last.op = "fill_builder" -> last.arg
    [] last.op = "fill_expr" -> BExpr(last.arg)
    [] last.op = "fill_token" -> BExpr(Expr_from_parts(last.arg, <<>>, "fmt_expr"))

FillCalled == last.op \in {"fill_builder", "fill_expr", "fill_token"}

\* C29: fill_builder, fill_expr and fill_token return exactly when the Lens
\* points at a BHole, and then the Builder pointed at is the one supplied and
\* nothing else of the root has changed; otherwise the call panics and the
\* root is what it was.
C29_FillOnlyHoles ==
  FillCalled =>
    /\ ~last.panicked <=> last.pre = BHole
    /\ ~last.panicked =>
         /\ Cur = Supplied
         /\ builder = ReplaceAt(last.root, lens, Supplied)
    /\ last.panicked =>
         /\ builder = last.root
         /\ Cur = last.pre

\* A fill_token on a Builder that has its token has panicked below the root.
C29_Witness ==
  /\ last.op = "fill_token"
  /\ last.panicked
  /\ lens # <<>>
  /\ last.pre.tag = "BExpr"
  /\ Cur = last.pre

\* C30: visit_child(index) panics exactly when the Builder pointed at is a
\* BHole or has no child at index; otherwise the Lens returned points at the
\* child at index of the Builder the call was made on, which is the Builder
\* that was there before the call, or BExpr of the Expr that was there if the
\* call was made on a BExpr; a BExpr the call was made on has become a BPart
\* with the same head and the same children.
C30_VisitChild ==
  last.op = "visit_child" =>
    LET index == last.arg
        pre == last.pre
        children == IF pre.tag = "BExpr" THEN pre.expr.child_exprs
                    ELSE IF pre.tag = "BHole" THEN <<>>
                    ELSE children_of(pre)
    IN /\ last.panicked <=> (pre.tag = "BHole" \/ ~(index <= Len(children)))
       /\ ~last.panicked =>
            /\ lens # <<>>
            /\ lens[Len(lens)] = index
            /\ ParentBefore = pre
            /\ Cur = children_of(Parent)[index]
            /\ Cur = IF pre.tag = "BExpr" THEN BExpr(children[index]) ELSE children[index]
            /\ pre.tag = "BExpr" =>
                 /\ Parent.tag = "BPart"
                 /\ Parent.inner.head_token = pre.expr.head_token
                 /\ Shape(Parent) = Shape(pre)
            /\ pre.tag # "BExpr" => Parent = pre

\* visit_child was called for the second child of a BExpr below the root.
C30_Witness ==
  /\ last.op = "visit_child"
  /\ ~last.panicked
  /\ last.pre.tag = "BExpr"
  /\ last.arg = 2
  /\ Len(lens) = 1
  /\ Cur.tag = "BExpr"

LensPushOps == {"Lens::push_builder", "Lens::push_expr", "Lens::push_token"}

LensPushCalled == last.op \in LensPushOps

\* The child a push call of the Lens supplies, as a Builder.
PushedChild ==
  CASE last.op = "Lens::push_builder" -> last.arg
    [] last.op = "Lens::push_expr" -> BExpr(last.arg)
    [] last.op = "Lens::push_token" -> BExpr(Expr_from_parts(last.arg, <<>>, "fmt_expr"))

\* C31 as stated: a push through the Lens onto a BExpr leaves a BPart with
\* the child appended, whichever of the three push operations it is.
C31_LensPushPromotes ==
  (LensPushCalled /\ ~last.panicked /\ last.pre.tag = "BExpr") =>
    /\ Cur.tag = "BPart"
    /\ Cur.inner.child_exprs = Append(map_BExpr(last.pre.expr.child_exprs), PushedChild)

\* C31: a push through the Lens panics exactly on a BHole, and then changes
\* nothing; otherwise the Builder pointed at afterwards is the one that was
\* pushed onto, with the same head, the same children and the new child after
\* them, and nothing else of the root has changed. It is what the Builder's
\* own operation leaves: push_child for push_builder, which turns a BExpr
\* into a BPart, and push_expr for push_expr and push_token, which keeps a
\* BExpr a BExpr and pushes onto its Expr.
C31_LensPushAsBuilderPush ==
  LensPushCalled =>
    /\ last.panicked <=> last.pre.tag = "BHole"
    /\ last.panicked => (builder = last.root /\ Cur = last.pre)
    /\ ~last.panicked =>
         /\ last.pre = NodeAt(last.root, lens)
         /\ builder = ReplaceAt(last.root, lens, Cur)
         /\ Shape(Cur).head = Shape(last.pre).head
         /\ Shape(Cur).children = Append(Shape(last.pre).children, Shape(PushedChild))
         /\ Cur = IF last.op = "Lens::push_builder" THEN push_child(last.pre, last.arg)
                  ELSE push_expr(last.pre, PushedChild.expr)
         /\ last.pre.tag = "BExpr" =>
              Cur.tag = IF last.op = "Lens::push_builder" THEN "BPart" ELSE "BExpr"

\* A push_token through a Lens below the root has pushed onto a BExpr, which
\* is still a BExpr.
C31_Witness ==
  /\ last.op = "Lens::push_token"
  /\ ~last.panicked
  /\ lens # <<>>
  /\ last.pre.tag = "BExpr"
  /\ Cur.tag = "BExpr"
  /\ Len(Cur.expr.child_exprs) = Len(last.pre.expr.child_exprs) + 1

------------------------------------------------------------------------------
\* The finish that takes the Builder by value

FinishOwnedCalled == last.op = "Builder::finish"

\* C32: the finish that takes the Builder by value panics exactly when a
\* BHole or a BTokenHole is left somewhere in the Builder, with and without
\* debug_assertions, and returns an Expr only for a Builder without one: the
\* Expr of the same heads and children.
C32_FinishOwnedPanicsOnHoles ==
  FinishOwnedCalled =>
    /\ last.panicked <=> HasHole(last.root)
    /\ last.panicked <=> ~can_finish(last.root)
    /\ last.ret.some <=> ~last.panicked
    /\ last.ret.some => ExprShape(last.ret.value) = Shape(last.root)

\* Built without debug_assertions, the finish of a BPart whose second child
\* is a BHole has panicked.
C32_Witness ==
  /\ FinishOwnedCalled
  /\ last.arg = FALSE
  /\ last.panicked
  /\ last.root.tag = "BPart"
  /\ Len(children_of(last.root)) = 2
  /\ children_of(last.root)[1].tag = "BExpr"
  /\ children_of(last.root)[2].tag = "BHole"

------------------------------------------------------------------------------
\* The placeholder of the moves

\* The paths of the Builders of a tree: the root and, through child_exprs,
\* the nested ones.
RECURSIVE Paths(_)
Paths(self) ==
  {<<>>} \cup UNION {{<<i>> \o path : path \in Paths(children_of(self)[i])} :
                     i \in 1..Len(children_of(self))}

\* path is at or below the Builder that the Lens points at.
BelowLens(path) == Len(lens) <= Len(path) /\ SubSeq(path, 1, Len(lens)) = lens

\* C33: whatever the last call was, a Builder of the tree, the root or a
\* nested one, that was not a BHole before the call is still there and is
\* not a BHole after it, unless the call was a finish that returned an Expr
\* and the Builder is the one finished or one below it; the BHole that
\* take_token, set_token, child_exprs and finish put in place while they move
\* the old state out is gone when they return.
C33_PlaceholderNotObservable ==
  \A path \in Paths(last.root) :
    NodeAt(last.root, path).tag # "BHole" =>
      \/ /\ path \in Paths(builder)
         /\ NodeAt(builder, path).tag # "BHole"
      \/ /\ last.op = "finish"
         /\ last.ret.some
         /\ BelowLens(path)
         /\ Cur = BHole

\* A finish has returned None on a BPart whose first child, a
\* BPart itself, was finished and put back before the BHole that follows it
\* was met.
C33_Witness ==
  /\ last.op = "finish"
  /\ ~last.ret.some
  /\ last.pre.tag = "BPart"
  /\ Len(children_of(last.pre)) = 2
  /\ children_of(last.pre)[1].tag = "BPart"
  /\ children_of(last.pre)[2].tag = "BHole"
  /\ children_of(Cur)[1].tag = "BExpr"

------------------------------------------------------------------------------
\* The children of a BPart after a finish that failed

\* The index of the first child that cannot finish.
FirstIncomplete(child_builders) ==
  CHOOSE k \in 1..Len(child_builders) :
    /\ ~can_finish(child_builders[k])
    /\ \A i \in 1..(k - 1) : can_finish(child_builders[i])

\* C34: after a finish that returned None on a BPart, the BPart has its head
\* and as many children as before; each child before the first one that could
\* not finish is a BExpr of the Expr built from it, equal to the child it was;
\* that first one still cannot finish and has the heads, children and holes
\* it had; each child after it is the Builder it was, in the same state.
C34_FailedFinishStopsAtFirstIncomplete ==
  (FinishCalled /\ ~last.ret.some /\ last.pre.tag = "BPart") =>
    LET before == last.pre.inner.child_exprs
        after == children_of(Cur)
        k == FirstIncomplete(before)
    IN /\ Cur.tag = "BPart"
       /\ Cur.inner.head_token = last.pre.inner.head_token
       /\ Len(after) = Len(before)
       /\ \A i \in 1..(k - 1) :
            /\ after[i] = BExpr(Direct(before[i]))
            /\ builder_eq(after[i], before[i])
       /\ ~can_finish(after[k])
       /\ Shape(after[k]) = Shape(before[k])
       /\ \A i \in (k + 1)..Len(before) : after[i] = before[i]

\* A finish has returned None on a BPart whose first child is a BHole and
\* whose second child, a BPart that can finish, is still that BPart.
C34_Witness ==
  /\ FinishCalled
  /\ ~last.ret.some
  /\ last.pre.tag = "BPart"
  /\ Len(last.pre.inner.child_exprs) = 2
  /\ last.pre.inner.child_exprs[1].tag = "BHole"
  /\ last.pre.inner.child_exprs[2].tag = "BPart"
  /\ can_finish(last.pre.inner.child_exprs[2])
  /\ children_of(Cur)[2] = last.pre.inner.child_exprs[2]

------------------------------------------------------------------------------
\* The Lens writes below itself only

\* path leads to a Builder above the one that the Lens points at.
AboveLens(path) == Len(path) < Len(lens) /\ SubSeq(lens, 1, Len(path)) = path

LensWriteCalled ==
  /\ (FillCalled \/ LensPushCalled \/ last.op \in {"push_child", "push_token"})
  /\ ~last.panicked
  /\ lens # <<>>

\* C35: after a fill or a push through a Lens that visit_child returned, the
\* Builder above it has the head, the state and the number of children it
\* had, its children other than the one visited are the Builders they were,
\* and so it is at every level up to the root: every Builder that is neither
\* on the way to the Lens nor below it is what it was. The visit_child itself
\* changes no head, child or hole of the tree, and leaves a tree that could
\* finish equal to what it was.
C35_LensWritesAreLocal ==
  /\ LensWriteCalled =>
       /\ Shape(Parent).head = Shape(ParentBefore).head
       /\ Parent.tag = ParentBefore.tag
       /\ Len(children_of(Parent)) = Len(children_of(ParentBefore))
       /\ \A j \in 1..Len(children_of(ParentBefore)) :
            j # lens[Len(lens)] => children_of(Parent)[j] = children_of(ParentBefore)[j]
       /\ \A path \in Paths(last.root) :
            /\ AboveLens(path) =>
                 /\ path \in Paths(builder)
                 /\ NodeAt(builder, path).tag = NodeAt(last.root, path).tag
                 /\ Shape(NodeAt(builder, path)).head = Shape(NodeAt(last.root, path)).head
                 /\ Len(children_of(NodeAt(builder, path)))
                      = Len(children_of(NodeAt(last.root, path)))
            /\ (~AboveLens(path) /\ ~BelowLens(path)) =>
                 /\ path \in Paths(builder)
                 /\ NodeAt(builder, path) = NodeAt(last.root, path)
  /\ (last.op = "visit_child" /\ ~last.panicked) =>
       /\ Shape(builder) = Shape(last.root)
       /\ can_finish(last.root) => builder_eq(builder, last.root)

\* The second child, a BHole, was filled with an Expr through the Lens on it;
\* the first child is the Builder it was.
C35_Witness ==
  /\ last.op = "fill_expr"
  /\ ~last.panicked
  /\ lens = <<2>>
  /\ Cur # last.pre
  /\ Len(children_of(Parent)) = 2
  /\ children_of(Parent)[1] = children_of(ParentBefore)[1]

------------------------------------------------------------------------------
\* Matching while children are pushed

RootPushCalled ==
  /\ last.op \in {"push_child", "push_expr", "push_token"}
  /\ ~last.panicked
  /\ lens = <<>>

\* C36: a pattern that matched the Builder before a push_child, push_expr or
\* push_token on its root matches it after the push; a pattern that matches
\* after the push only declares the index of the child pushed, and matches
\* that child.
C36_MatchMonotoneUnderPush ==
  RootPushCalled =>
    LET pushed == Len(children_of(last.root))
    IN /\ match_builder(pattern, last.root) => match_builder(pattern, builder)
       /\ (~match_builder(pattern, last.root) /\ match_builder(pattern, builder)) =>
            /\ pushed \in DOMAIN pattern.child_patterns
            /\ match_builder(pattern.child_patterns[pushed], children_of(builder)[pushed + 1])

\* A pattern that declares the child 0 as a, and matched a Builder of one
\* child, still matches after the push of a BHole onto the root of the Builder.
C36_Witness ==
  /\ RootPushCalled
  /\ last.op = "push_child"
  /\ last.arg = BHole
  /\ DOMAIN pattern.child_patterns = {0}
  /\ pattern.child_patterns[0].head_token = EqPattern("a")
  /\ Len(children_of(last.root)) = 1
  /\ match_builder(pattern, last.root)
  /\ match_builder(pattern, builder)

------------------------------------------------------------------------------
\* take_token, then set_token with the token taken

\* A set_token call that follows a take_token that returned a token, on the
\* same Builder and with that token.
SetTokenTaken ==
  /\ last.op = "take_token"
  /\ last.ret.some
  /\ last'.op = "set_token"
  /\ last'.arg = last.ret.value
  /\ lens' = lens

\* C37: when set_token is called with the token that the take_token before it
\* returned, the Builder, a BExpr or a BPart before the two calls, is a BPart
\* after them with the head and the children it had, in the same order;
\* set_token returns None; can_finish is what it was, and a Builder that
\* could finish is equal to what it was.
C37_TakeThenSetTokenRoundTrip ==
  [][SetTokenTaken =>
       /\ last.pre.tag \in {"BExpr", "BPart"}
       /\ last'.pre = Cur
       /\ ~last'.ret.some
       /\ Cur'.tag = "BPart"
       /\ Shape(Cur') = Shape(last.pre)
       /\ Shape(builder') = Shape(last.root)
       /\ can_finish(Cur') <=> can_finish(last.pre)
       /\ can_finish(last.pre) =>
            (builder_eq(Cur', last.pre) /\ builder_eq(last.pre, Cur'))]_vars

\* set_token has returned None on a BTokenHole with a child and has left a
\* BPart that can finish.
C37_Witness ==
  /\ last.op = "set_token"
  /\ ~last.panicked
  /\ ~last.ret.some
  /\ last.pre.tag = "BTokenHole"
  /\ Len(last.pre.child_exprs) > 0
  /\ Cur.tag = "BPart"
  /\ can_finish(Cur)

------------------------------------------------------------------------------
\* The pattern formatter of the patterns module

PatternsFmtPatternCalled == last.op = "patterns::fmt_pattern" /\ last.ret.some

\* C38: between two successive declared entries, patterns::fmt_pattern writes
\* an elision marker exactly when their indices differ by more than 1, and
\* what it displays is what expr_patterns::fmt_pattern displays for the same
\* head and declared children.
C38_PatternsFmtPatternSameRule ==
  PatternsFmtPatternCalled =>
    LET out == last.ret.value
        n == Cardinality(Declared(pattern))
    IN /\ \A j \in 2..n :
            out[4 * j - 2] \in ElisionMarkers
              <=> NthDeclared(pattern, j) - NthDeclared(pattern, j - 1) > 1
       /\ Formatted(out) = Formatted(ExprPattern_fmt(pattern))

====
